---------------------------- MODULE Spec2Model ----------------------------
(***************************************************************************)
(* A model of the DexScreener screener: the snapshot store, the ingestion  *)
(* pipeline, the dump/reversal state machine kept in dump_watchlist, the   *)
(* ATH drawdown screener (StrategyEngine.run), the outcome analyzers, the  *)
(* HTTP client and the collect-new loop.                                   *)
(*                                                                         *)
(* Numbers.  Prices, volumes and liquidity are Python floats in the code;  *)
(* here they are integers in an arbitrary unit and every comparison that   *)
(* the code makes on a product or a quotient is made exactly, by cross     *)
(* multiplication (x >= low * 1.003 is 1000 x >= 1003 low).  A percentage  *)
(* such as drop_pct is kept as the fraction it was computed from, the      *)
(* record [num, den] standing for num / den * 100.  Floating point         *)
(* rounding, infinities and NaN are outside the model.                     *)
(*                                                                         *)
(* Time.  Every clock reading of the code is int(time.time() * 1000); the  *)
(* variable now is that reading in milliseconds, with the origin of the    *)
(* time axis shifted so that the values fit TLC's integers.                *)
(***************************************************************************)
EXTENDS Integers, Sequences, FiniteSets, TLC

VARIABLES
    now,              \* the wall clock, ms
    tokens,           \* table tokens: the set of addresses
    pairs,            \* table pairs: pair_address -> latest row
    snapshots,        \* table snapshots, in insertion (id) order
    snap_seq,         \* sqlite_sequence of snapshots: the last id given out
    dump_watchlist,   \* table dump_watchlist: pair_address -> entry
    strategy_decisions,  \* table strategy_decisions, in insertion order
    strategy_latest,     \* table strategy_latest: pair_address -> last decision
    signal_cooldowns,    \* table signal_cooldowns: pair_address -> last_signal_at
    signal_events,       \* table signal_events, in insertion (id) order
    signal_evaluations,  \* table signal_evaluations, in insertion order
    signal_trigger_evaluations,  \* signal_id -> status
    run,              \* StrategyEngine.run in progress: its now_ms, the pairs
                      \* still to visit and the five lists it returns
    last_op,          \* history: the operation that ran last, its pair and
                      \* the row count it returned
    client,           \* the DexScreenerClient object and its _request in progress
    collect_new,      \* cmd_collect_new: its locals and its place in the loop
    app_status,       \* table app_status: the singleton row, if any
    db_lock           \* the lock file of the database and the processes sharing it

storeVars == <<tokens, pairs, snapshots, snap_seq, dump_watchlist>>
screenVars == <<strategy_decisions, strategy_latest, signal_cooldowns, signal_events,
                signal_evaluations, signal_trigger_evaluations, run>>
histVars  == <<last_op>>
netVars   == <<client, collect_new, app_status, db_lock>>

-----------------------------------------------------------------------------
(* Values *)

\* Python None / SQL NULL in a numeric column.
NULL == -1

HOUR_MS == 3600000

\* config.py
DROP_THRESHOLD == 50
LIQ_MIN == 10000
VOL_M5_MIN == 500
SELLS_MIN == 5
DUMP_WATCHLIST_TTL_HOURS == 3
DEFAULT_PRUNE_MAX_AGE_HOURS == 24
SELF_CHECK_AGE_HOURS == 24
STRATEGY_MAX_AGE_HOURS == 24
STRATEGY_MIN_LIQ == 10000
STRATEGY_MIN_VOL == 500
STRATEGY_MIN_TXNS == 5
ATH_VALIDATE_WINDOW_SEC == 300
ATH_MIN_SNAPSHOTS_IN_WINDOW == 2
ATH_MIN_TXNS_IN_WINDOW == 1
ATH_MIN_VOLUME_IN_WINDOW == 0
ATH_FALLBACK_MAX_ATTEMPTS == 10
BOOTSTRAP_MIN_SNAPSHOTS == ATH_MIN_SNAPSHOTS_IN_WINDOW
BOOTSTRAP_MIN_LIQ == 10000
BOOTSTRAP_MIN_TXNS == 5
WL1_MIN_DROP == 25
WL2_MIN_DROP == 35
WL3_MIN_DROP == 45
SIGNAL_MIN_DROP == 50
SIGNAL_MAX_DROP == 60
WL1_MIN_TXNS == 5
WL2_MIN_TXNS == 7
WL3_MIN_TXNS == 10
WL1_MIN_LIQ == 10000
WL2_MIN_LIQ == 15000
WL3_MIN_LIQ == 20000
TXNS_SIGNAL == 10
BUYS_MIN == 5
LIQ_SIGNAL == 5000
SIGNAL_COOLDOWN_SEC == 3600
POST_HORIZONS_SEC == <<1800, 3600, 7200>>
TP1_PCT == 40
SL_PCT == -50
TRIGGER_EVAL_MAX_AGE_SEC == 86400
TRIGGER_EVAL_MIN_SNAPSHOTS == 2

\* literals of update_dump_watchlist_for_snapshot, as per-mille / tenths
BOTTOM_PER_MILLE == 1003
BOUNCE_PER_MILLE == 1010
BUYS_SELLS_TENTHS == 8
VOL_FLOOR == 300

Pairs == {"pA", "pB"}

\* baseToken.address and quoteToken.address the provider reports for a pair
BaseOf(p)  == IF p = "pA" THEN "tA" ELSE "tB"
QuoteOf(p) == "SOL"

\* v if v is not None else 0
Nz(v) == IF v = NULL THEN 0 ELSE v

Max2(a, b) == IF a >= b THEN a ELSE b

\* mutant: INSERT OR IGNORE, an existing row is kept
PutIfAbsent(f, k, v) == [x \in (DOMAIN f) \cup {k} |-> IF x \in DOMAIN f THEN f[x] ELSE v]

Put(f, k, v) == [x \in (DOMAIN f) \cup {k} |-> IF x = k THEN v ELSE f[x]]
Without(f, S) == [x \in (DOMAIN f) \ S |-> f[x]]

\* a percentage num / den * 100, den > 0
Pct(n, d) == [num |-> n, den |-> d]
PctLess(a, k) == a.num * 100 < k * a.den
PctLeq(a, k) == a.num * 100 <= k * a.den
PctEq(a, b) == a.num * b.den = b.num * a.den

-----------------------------------------------------------------------------
(* Reads of the snapshots table *)

PairRows(snaps, p) == SelectSeq(snaps, LAMBDA r : r.pair_address = p)

\* ORDER BY snapshot_ts DESC LIMIT 1 over rows (non-empty): the index of the
\* row with the greatest snapshot_ts; among equal timestamps SQLite walks
\* idx_snapshots_pair_ts backwards and yields the greatest rowid first.
LatestIdx(rows) ==
    CHOOSE i \in 1..Len(rows) :
        \A j \in 1..Len(rows) :
            \/ rows[j].snapshot_ts < rows[i].snapshot_ts
            \/ rows[j].snapshot_ts = rows[i].snapshot_ts /\ rows[j].id <= rows[i].id

RemoveAt(rows, i) == [j \in 1..(Len(rows) - 1) |-> IF j < i THEN rows[j] ELSE rows[j + 1]]

\* ORDER BY snapshot_ts DESC LIMIT 2
TwoRows(rows) ==
    IF Len(rows) = 0 THEN <<>>
    ELSE LET i == LatestIdx(rows)
             rest == RemoveAt(rows, i)
         IN  IF Len(rest) = 0 THEN <<rows[i]>>
             ELSE <<rows[i], rest[LatestIdx(rest)]>>

PricedRows(rows) == SelectSeq(rows, LAMBDA r : r.price_usd # NULL /\ r.price_usd > 0)

\* ORDER BY price_usd DESC, snapshot_ts DESC LIMIT 1 over rows (non-empty)
PeakIdx(rows) ==
    CHOOSE i \in 1..Len(rows) :
        \A j \in 1..Len(rows) :
            \/ rows[j].price_usd < rows[i].price_usd
            \/ /\ rows[j].price_usd = rows[i].price_usd
               /\ \/ rows[j].snapshot_ts < rows[i].snapshot_ts
                  \/ rows[j].snapshot_ts = rows[i].snapshot_ts /\ rows[j].id <= rows[i].id

-----------------------------------------------------------------------------
(* Database.update_dump_watchlist_for_snapshot *)

\* mutant: the drop taken relative to the last price
DropPctOverLast(peak_price, last_price) == Pct(peak_price - last_price, last_price)

\* drop_pct = (peak_price - last_price) / peak_price * 100.0
DropPct(peak_price, last_price) == Pct(peak_price - last_price, peak_price)

\* mutant: the liquidity floor left out of the admission test
AdmitNoLiq(drop_pct, liq, vol, sells) ==
    ~ ( \/ PctLess(drop_pct, DROP_THRESHOLD)
        \/ vol < VOL_M5_MIN
        \/ sells < SELLS_MIN )

\* the admission test of a pair that has no entry (the negation of the
\* early return)
AdmitOK(drop_pct, liq, vol, sells) ==
    ~ ( \/ PctLess(drop_pct, DROP_THRESHOLD)
        \/ liq < LIQ_MIN
        \/ vol < VOL_M5_MIN
        \/ sells < SELLS_MIN )

\* DUMPING -> BOTTOMING
\* mutant: the test on the price of the snapshot before the last left out
BottomingCondLastOnly(low_price, two_rows) ==
    /\ Len(two_rows) >= 2
    /\ Nz(two_rows[1].price_usd) * 1000 >= low_price * BOTTOM_PER_MILLE
    /\ Nz(two_rows[1].txns_m5_buys) * 10 >= Nz(two_rows[1].txns_m5_sells) * BUYS_SELLS_TENTHS

\* DUMPING -> BOTTOMING
BottomingCond(low_price, two_rows) ==
    /\ Len(two_rows) >= 2
    /\ LET p1 == Nz(two_rows[1].price_usd)
           p2 == Nz(two_rows[2].price_usd)
           b1 == Nz(two_rows[1].txns_m5_buys)
           s1 == Nz(two_rows[1].txns_m5_sells)
       IN  /\ p1 * 1000 >= low_price * BOTTOM_PER_MILLE
           /\ p2 * 1000 >= low_price * BOTTOM_PER_MILLE
           /\ b1 * 10 >= s1 * BUYS_SELLS_TENTHS

\* mutant: the bounce must exceed low * 1.01
SignalCondStrictBounce(last, low_price, two_rows) ==
    LET vol_safe == Nz(last.volume_m5)
        prev_vol == IF Len(two_rows) >= 2 THEN Nz(two_rows[2].volume_m5) ELSE 0
        vol_min  == Max2(prev_vol, VOL_FLOOR)
        buys     == Nz(last.txns_m5_buys)
        sells    == Nz(last.txns_m5_sells)
    IN  /\ last.price_usd * 1000 > low_price * BOUNCE_PER_MILLE
        /\ buys > sells
        /\ vol_safe >= vol_min

\* DUMPING / BOTTOMING -> SIGNAL
SignalCond(last, low_price, two_rows) ==
    LET vol_safe == Nz(last.volume_m5)
        prev_vol == IF Len(two_rows) >= 2 THEN Nz(two_rows[2].volume_m5) ELSE 0
        vol_min  == Max2(prev_vol, VOL_FLOOR)
        buys     == Nz(last.txns_m5_buys)
        sells    == Nz(last.txns_m5_sells)
    IN  /\ last.price_usd * 1000 >= low_price * BOUNCE_PER_MILLE
        /\ buys > sells
        /\ vol_safe >= vol_min

\* the three UPDATE statements on an existing row
UpdateExisting(e, last, peak, drop_pct, t) ==
    LET e1 == IF e.peak_price < peak.price_usd
              THEN [e EXCEPT !.updated_at_ms = t,
                             !.last_price = last.price_usd,
                             !.last_ts = last.snapshot_ts,
                             !.drop_pct = drop_pct,
                             !.volume_m5 = last.volume_m5,
                             !.buys_m5 = last.txns_m5_buys,
                             !.sells_m5 = last.txns_m5_sells,
                             !.peak_price = peak.price_usd,
                             !.peak_ts = peak.snapshot_ts]
              ELSE e
        e2 == IF last.price_usd < e.low_price
              THEN [e1 EXCEPT !.low_price = last.price_usd,
                              !.low_ts = last.snapshot_ts]
              ELSE e1
    IN  [e2 EXCEPT !.updated_at_ms = t,
                   !.last_price = last.price_usd,
                   !.last_ts = last.snapshot_ts,
                   !.drop_pct = drop_pct,
                   !.volume_m5 = last.volume_m5,
                   !.buys_m5 = last.txns_m5_buys,
                   !.sells_m5 = last.txns_m5_sells]

\* the INSERT of a new row
NewEntry(last, peak, drop_pct, t) ==
    [added_at_ms |-> t, updated_at_ms |-> t, state |-> "DUMPING",
     peak_price |-> peak.price_usd, peak_ts |-> peak.snapshot_ts,
     low_price |-> last.price_usd, low_ts |-> last.snapshot_ts,
     last_price |-> last.price_usd, last_ts |-> last.snapshot_ts,
     drop_pct |-> drop_pct,
     volume_m5 |-> last.volume_m5, buys_m5 |-> last.txns_m5_buys,
     sells_m5 |-> last.txns_m5_sells,
     signal_ts |-> NULL, signal_price |-> NULL]

\* mutant: no early return on SIGNAL, and BOTTOMING set from any state
TransitionsNoTerminal(e, last, two_rows) ==
    LET eb == IF BottomingCond(e.low_price, two_rows)
              THEN [e EXCEPT !.state = "BOTTOMING"]
              ELSE e
    IN  IF SignalCond(last, eb.low_price, two_rows) /\ eb.signal_ts = NULL
        THEN [eb EXCEPT !.state = "SIGNAL",
                        !.signal_ts = last.snapshot_ts,
                        !.signal_price = last.price_usd]
        ELSE eb

\* mutant: no early return on SIGNAL, and the SIGNAL update not restricted
\* to rows whose signal_ts is NULL
TransitionsRestamp(e, last, two_rows) ==
    LET eb == IF e.state = "DUMPING" /\ BottomingCond(e.low_price, two_rows)
              THEN [e EXCEPT !.state = "BOTTOMING"]
              ELSE e
    IN  IF SignalCond(last, eb.low_price, two_rows)
        THEN [eb EXCEPT !.state = "SIGNAL",
                        !.signal_ts = last.snapshot_ts,
                        !.signal_price = last.price_usd]
        ELSE eb

\* mutant: the SIGNAL test skipped by an invocation that has just set
\* BOTTOMING (elif instead of if)
TransitionsElif(e, last, two_rows) ==
    IF e.state = "SIGNAL" /\ e.signal_ts # NULL THEN e
    ELSE IF e.state = "DUMPING" /\ BottomingCond(e.low_price, two_rows)
         THEN [e EXCEPT !.state = "BOTTOMING"]
         ELSE IF SignalCond(last, e.low_price, two_rows) /\ e.signal_ts = NULL
              THEN [e EXCEPT !.state = "SIGNAL",
                             !.signal_ts = last.snapshot_ts,
                             !.signal_price = last.price_usd]
              ELSE e

\* the state transitions made after the row was written and re-read
Transitions(e, last, two_rows) ==
    IF e.state = "SIGNAL" /\ e.signal_ts # NULL THEN e
    ELSE
      LET eb == IF e.state = "DUMPING" /\ BottomingCond(e.low_price, two_rows)
                THEN [e EXCEPT !.state = "BOTTOMING"]
                ELSE e
      IN  IF SignalCond(last, eb.low_price, two_rows) /\ eb.signal_ts = NULL
          THEN [eb EXCEPT !.state = "SIGNAL",
                          !.signal_ts = last.snapshot_ts,
                          !.signal_price = last.price_usd]
          ELSE eb

\* dump_watchlist after update_dump_watchlist_for_snapshot(p) run at time t
\* on the tables snaps, prs, dwl
DumpUpdate(dwl, snaps, prs, p, t) ==
    LET rows == PairRows(snaps, p)
    IN  IF Len(rows) = 0 THEN dwl
        ELSE
          LET last == rows[LatestIdx(rows)]
          IN  IF last.price_usd = NULL \/ last.price_usd <= 0 THEN dwl
              ELSE
                LET priced   == PricedRows(rows)
                    peak     == priced[PeakIdx(priced)]
                    drop_pct == DropPct(peak.price_usd, last.price_usd)
                    liq      == IF p \in DOMAIN prs THEN Nz(prs[p].liquidity_usd) ELSE 0
                    vol      == Nz(last.volume_m5)
                    sells    == Nz(last.txns_m5_sells)
                    two_rows == TwoRows(rows)
                IN  IF p \in DOMAIN dwl
                    THEN Put(dwl, p,
                             Transitions(UpdateExisting(dwl[p], last, peak, drop_pct, t),
                                         last, two_rows))
                    ELSE IF AdmitOK(drop_pct, liq, vol, sells)
                         THEN Put(dwl, p,
                                  Transitions(NewEntry(last, peak, drop_pct, t),
                                              last, two_rows))
                         ELSE dwl

-----------------------------------------------------------------------------
(* Rows and inputs *)

\* the normalized PairSnapshot of one raw pair object, as the row both
\* upsert_pair and insert_snapshot write
Row(p, raw, ts) ==
    [pair_address |-> p, snapshot_ts |-> ts,
     base_address |-> BaseOf(p), quote_address |-> QuoteOf(p),
     price_usd |-> raw.price_usd, liquidity_usd |-> raw.liquidity_usd,
     volume_m5 |-> raw.volume_m5, volume_h24 |-> raw.volume_h24,
     txns_m5_buys |-> raw.txns_m5_buys, txns_m5_sells |-> raw.txns_m5_sells,
     txns_h24_buys |-> raw.txns_h24_buys, txns_h24_sells |-> raw.txns_h24_sells,
     pair_created_at_ms |-> raw.pair_created_at_ms]

\* the row insert_snapshot appends: the AUTOINCREMENT id and the columns of
\* the snapshot that some query reads
SnapRow(row, id) ==
    [id |-> id, pair_address |-> row.pair_address, snapshot_ts |-> row.snapshot_ts,
     price_usd |-> row.price_usd, volume_m5 |-> row.volume_m5,
     txns_m5_buys |-> row.txns_m5_buys, txns_m5_sells |-> row.txns_m5_sells]

\* bounds of the model
MaxSnaps == 5
MaxTicks == 4
INGEST_MS == 1

\* the clock reading at the start; a pair created at OldCreated is older
\* than 24 h at every reading, one created at StartClock is not
StartClock == 100 * HOUR_MS
OldCreated == HOUR_MS

-----------------------------------------------------------------------------
(* Operations *)

\* Collector._persist_pairs on one raw pair (collect --pairs p): the snapshot
\* timestamp is read from the clock, then upsert_token (base, quote),
\* upsert_pair, insert_snapshot, update_dump_watchlist_for_snapshot.  The
\* call, the request before it included, takes INGEST_MS of wall time.
Ingest(p, raw) ==
    /\ LET row == Row(p, raw, now)
           snaps2 == Append(snapshots, SnapRow(row, snap_seq + 1))
           pairs2 == Put(pairs, p, row)
       IN  /\ tokens' = tokens \cup {BaseOf(p), QuoteOf(p)}
           /\ pairs' = pairs2
           /\ snapshots' = snaps2
           /\ snap_seq' = snap_seq + 1
           /\ dump_watchlist' = DumpUpdate(dump_watchlist, snaps2, pairs2, p, now)
    /\ last_op' = [op |-> "ingest", pair |-> p, ret |-> 0]
    /\ now' = now + INGEST_MS
    /\ UNCHANGED netVars
    /\ UNCHANGED screenVars

\* Database.update_dump_watchlist_for_snapshot(p) called again, no snapshot
\* having been inserted
Reinvoke(p) ==
    /\ dump_watchlist' = DumpUpdate(dump_watchlist, snapshots, pairs, p, now)
    /\ last_op' = [op |-> "reinvoke", pair |-> p, ret |-> 0]
    /\ UNCHANGED netVars
    /\ UNCHANGED <<now, tokens, pairs, snapshots, snap_seq, screenVars>>

\* mutant: the cutoff taken in seconds
IsOldCutoffInSeconds(row, cutoff) ==
    /\ row.pair_created_at_ms # NULL
    /\ row.pair_created_at_ms # 0
    /\ row.pair_created_at_ms < cutoff \div 1000

\* "old" in prune_by_pair_age: pair_created_at_ms < cutoff, not NULL, not 0
IsOld(row, cutoff) ==
    /\ row.pair_created_at_ms # NULL
    /\ row.pair_created_at_ms # 0
    /\ row.pair_created_at_ms < cutoff

\* mutant: a token counts as referenced only as the base of a pair
ReferencedAsBase(prs) == {prs[q].base_address : q \in DOMAIN prs}

\* mutant: only the quote tokens of the remaining pairs kept
ReferencedAsQuote(prs) == {prs[q].quote_address : q \in DOMAIN prs}

ReferencedTokens(prs) ==
    {prs[q].base_address : q \in DOMAIN prs} \cup {prs[q].quote_address : q \in DOMAIN prs}

\* mutant: a creation time of 0 taken as a known age
OldPairsWithZero(prs, cutoff) ==
    {q \in DOMAIN prs : prs[q].pair_created_at_ms # NULL /\ prs[q].pair_created_at_ms < cutoff}

\* the pairs the three statements of prune_by_pair_age select
OldPairs(prs, cutoff) == {q \in DOMAIN prs : IsOld(prs[q], cutoff)}

\* cutoff_ms of prune_by_pair_age at clock reading t
PruneCutoff(t, max_age_hours) == t - max_age_hours * HOUR_MS

\* mutant: the prune deleting the cooldown rows of the pairs it deletes
PruneByPairAgeAndCooldowns(max_age_hours) ==
    LET old == OldPairs(pairs, PruneCutoff(now, max_age_hours))
        snaps2 == SelectSeq(snapshots, LAMBDA r : r.pair_address \notin old)
        pairs2 == Without(pairs, old)
        tokens2 == tokens \cap ReferencedTokens(pairs2)
    IN  /\ snapshots' = snaps2
        /\ pairs' = pairs2
        /\ tokens' = tokens2
        /\ signal_cooldowns' = Without(signal_cooldowns, old)
        /\ last_op' = [op |-> "prune_by_pair_age", pair |-> "-",
                       ret |-> << Len(snapshots) - Len(snaps2),
                                  Cardinality(old),
                                  Cardinality(tokens \ tokens2) >>]
        /\ UNCHANGED netVars
        /\ UNCHANGED <<now, snap_seq, dump_watchlist, strategy_decisions,
                       strategy_latest, signal_events, signal_evaluations,
                       signal_trigger_evaluations, run>>

\* Database.prune_by_pair_age(max_age_hours, dry_run=False): the three
\* DELETE statements in one transaction, their rowcounts returned
PruneByPairAge(max_age_hours) ==
    LET old == OldPairs(pairs, PruneCutoff(now, max_age_hours))
        snaps2 == SelectSeq(snapshots, LAMBDA r : r.pair_address \notin old)
        pairs2 == Without(pairs, old)
        tokens2 == tokens \cap ReferencedTokens(pairs2)
    IN  /\ snapshots' = snaps2
        /\ pairs' = pairs2
        /\ tokens' = tokens2
        /\ last_op' = [op |-> "prune_by_pair_age", pair |-> "-",
                       ret |-> << Len(snapshots) - Len(snaps2),
                                  Cardinality(old),
                                  Cardinality(tokens \ tokens2) >>]
        /\ UNCHANGED netVars
        /\ UNCHANGED <<now, snap_seq, dump_watchlist, screenVars>>

\* Database.prune_by_pair_age(max_age_hours, dry_run=True): the three
\* SELECT COUNT(*) statements, each on the store as it is, nothing deleted
PruneByPairAgeDryRun(max_age_hours) ==
    LET old == OldPairs(pairs, PruneCutoff(now, max_age_hours))
    IN  /\ last_op' = [op |-> "prune_by_pair_age_dry_run", pair |-> "-",
                       ret |-> << Len(SelectSeq(snapshots, LAMBDA r : r.pair_address \in old)),
                                  Cardinality(old),
                                  Cardinality(tokens \ ReferencedTokens(pairs)) >>]
        /\ UNCHANGED netVars
        /\ UNCHANGED <<now, storeVars, screenVars>>

\* "old" in self_check_invariants: pair_created_at_ms < cutoff, not NULL, > 0
IsOldForCheck(row, cutoff) ==
    /\ row.pair_created_at_ms # NULL
    /\ row.pair_created_at_ms > 0
    /\ row.pair_created_at_ms < cutoff

\* Database.self_check_invariants() at time t: (old_pairs,
\* old_pairs_snapshots, orphan_tokens)
SelfCheckInvariants(prs, snaps, toks, t) ==
    LET cutoff == t - SELF_CHECK_AGE_HOURS * HOUR_MS
        old == {q \in DOMAIN prs : IsOldForCheck(prs[q], cutoff)}
    IN  << Cardinality(old),
           Len(SelectSeq(snaps, LAMBDA r : r.pair_address \in old)),
           Cardinality(toks \ ReferencedTokens(prs)) >>

\* mutant: an entry exactly as old as the TTL counted as expired
ExpiredAtCutoff(dwl, cutoff) == {q \in DOMAIN dwl : dwl[q].updated_at_ms <= cutoff}

\* the rows prune_dump_watchlist deletes: expired by TTL, then orphaned
Expired(dwl, cutoff) == {q \in DOMAIN dwl : dwl[q].updated_at_ms < cutoff}
Orphaned(dwl, prs) == {q \in DOMAIN dwl : q \notin DOMAIN prs}

\* Database.prune_dump_watchlist(ttl_hours)
PruneDumpWatchlist(ttl_hours) ==
    LET cutoff == now - ttl_hours * HOUR_MS
        d1 == Without(dump_watchlist, Expired(dump_watchlist, cutoff))
        d2 == Without(d1, Orphaned(d1, pairs))
        ttl_cnt == Cardinality(DOMAIN dump_watchlist) - Cardinality(DOMAIN d1)
        orphan_cnt == Cardinality(DOMAIN d1) - Cardinality(DOMAIN d2)
    IN  /\ dump_watchlist' = d2
        /\ last_op' = [op |-> "prune_dump_watchlist", pair |-> "-",
                       ret |-> ttl_cnt + orphan_cnt]
        /\ UNCHANGED netVars
        /\ UNCHANGED <<now, tokens, pairs, snapshots, snap_seq, screenVars>>

\* the clock advances by d, at most max_ticks hours in all
Tick(d, max_ticks) ==
    /\ now + d <= StartClock + max_ticks * HOUR_MS + MaxSnaps * INGEST_MS
    /\ now' = now + d
    /\ UNCHANGED netVars
    /\ UNCHANGED <<storeVars, screenVars, histVars>>

-----------------------------------------------------------------------------
(* The ATH screener: reads of the price history *)

\* _detect_snapshot_ts_unit: MAX(snapshot_ts) > 10**12, True without rows.
\* Every snapshot_ts is a clock reading in ms, which is above 10**12 on the
\* unshifted time axis.
SnapshotTsIsMs == TRUE

\* normalize_since_ts
NormalizeSinceTs(created_at_ms, snapshot_ts_is_ms) ==
    IF snapshot_ts_is_ms THEN created_at_ms ELSE created_at_ms \div 1000

\* WHERE pair_address = ? AND price_usd IS NOT NULL AND price_usd > 0
\* [AND snapshot_ts >= since_ts]
HistoryRows(snaps, p, since_ts) ==
    LET rows == PricedRows(PairRows(snaps, p))
    IN  IF since_ts = NULL THEN rows
        ELSE SelectSeq(rows, LAMBDA r :
                 r.snapshot_ts >= NormalizeSinceTs(since_ts, SnapshotTsIsMs))

\* Database.fetch_latest_price
FetchLatestPrice(snaps, prs, p) ==
    LET rows == PricedRows(PairRows(snaps, p))
    IN  IF Len(rows) > 0 THEN rows[LatestIdx(rows)].price_usd
        ELSE IF p \in DOMAIN prs THEN prs[p].price_usd
        ELSE NULL

\* Database.get_snapshot_count
GetSnapshotCount(snaps, p) == Len(PairRows(snaps, p))

\* Database.fetch_ath_point; ath_price = NULL stands for the result None
FetchAthPoint(snaps, p, since_ts) ==
    LET rows == HistoryRows(snaps, p, since_ts)
    IN  IF Len(rows) = 0
        THEN [ath_price |-> NULL, ath_ts |-> NULL,
              current_price |-> NULL, current_ts |-> NULL]
        ELSE [ath_price |-> rows[PeakIdx(rows)].price_usd,
              ath_ts |-> rows[PeakIdx(rows)].snapshot_ts,
              current_price |-> rows[LatestIdx(rows)].price_usd,
              current_ts |-> rows[LatestIdx(rows)].snapshot_ts]

\* SUM(COALESCE(txns_m5_buys, 0) + COALESCE(txns_m5_sells, 0))
SumTxns(rows) ==
    LET acc[i \in 0..Len(rows)] ==
            IF i = 0 THEN 0
            ELSE acc[i - 1] + Nz(rows[i].txns_m5_buys) + Nz(rows[i].txns_m5_sells)
    IN  acc[Len(rows)]

\* SUM(COALESCE(volume_m5, 0))
SumVolume(rows) ==
    LET acc[i \in 0..Len(rows)] ==
            IF i = 0 THEN 0 ELSE acc[i - 1] + Nz(rows[i].volume_m5)
    IN  acc[Len(rows)]

\* Database.fetch_activity_window: the snapshots table has the txns_m5 and
\* volume_m5 columns, so txns_sum and volume_sum are always present
FetchActivityWindow(snaps, p, center_ts, window_sec) ==
    LET half == (window_sec * (IF SnapshotTsIsMs THEN 1000 ELSE 1)) \div 2
        ts_lo == center_ts - half
        ts_hi == center_ts + half
        rows == SelectSeq(PairRows(snaps, p),
                          LAMBDA r : r.snapshot_ts >= ts_lo /\ r.snapshot_ts <= ts_hi)
    IN  [snapshots_count |-> Len(rows),
         txns_sum |-> SumTxns(rows),
         volume_sum |-> SumVolume(rows)]

\* r comes before q in ORDER BY price_usd DESC, snapshot_ts DESC
Before(r, q) ==
    \/ r.price_usd > q.price_usd
    \/ /\ r.price_usd = q.price_usd
       /\ \/ r.snapshot_ts > q.snapshot_ts
          \/ r.snapshot_ts = q.snapshot_ts /\ r.id > q.id

\* ORDER BY price_usd DESC, snapshot_ts DESC: the row in place j is the one
\* that j - 1 rows come before
ByPriceDesc(rows) ==
    [j \in 1..Len(rows) |->
        rows[CHOOSE i \in 1..Len(rows) :
                 Cardinality({k \in 1..Len(rows) : Before(rows[k], rows[i])}) = j - 1]]

\* Database.fetch_ath_candidates
FetchAthCandidates(snaps, p, since_ts, limit) ==
    LET sorted == ByPriceDesc(HistoryRows(snaps, p, since_ts))
        n == IF Len(sorted) < Max2(1, limit) THEN Len(sorted) ELSE Max2(1, limit)
    IN  SubSeq(sorted, 1, n)

-----------------------------------------------------------------------------
(* The ATH screener: strategy/engine.py *)

\* compute_drop_from_ath
ComputeDropFromAth(ath_price, current_price) ==
    IF ath_price = NULL \/ ath_price <= 0 THEN Pct(0, 1)
    ELSE LET cur == IF current_price = NULL \/ current_price < 0 THEN 0 ELSE current_price
         IN  Pct(ath_price - cur, ath_price)

\* mutant: the downgrade tests chained with elif on the initial level, so a
\* candidate moves down one level at most
ClassifyOneStep(drop, liq, txns, buys) ==
    IF PctLess(drop, WL1_MIN_DROP) THEN "REJECT"
    ELSE IF ~ PctLess(drop, SIGNAL_MIN_DROP) /\ PctLeq(drop, SIGNAL_MAX_DROP)
    THEN IF txns >= TXNS_SIGNAL /\ buys >= BUYS_MIN /\ liq >= LIQ_SIGNAL
         THEN "SIGNAL" ELSE "REJECT"
    ELSE LET cand0 == IF ~ PctLess(drop, WL3_MIN_DROP) /\ PctLess(drop, SIGNAL_MIN_DROP)
                      THEN "WATCHLIST_L3"
                      ELSE IF ~ PctLess(drop, WL2_MIN_DROP) /\ PctLess(drop, WL3_MIN_DROP)
                      THEN "WATCHLIST_L2"
                      ELSE "WATCHLIST_L1"
         IN  IF cand0 = "WATCHLIST_L3" /\ (txns < WL3_MIN_TXNS \/ liq < WL3_MIN_LIQ)
             THEN "WATCHLIST_L2"
             ELSE IF cand0 = "WATCHLIST_L2" /\ (txns < WL2_MIN_TXNS \/ liq < WL2_MIN_LIQ)
             THEN "WATCHLIST_L1"
             ELSE IF cand0 = "WATCHLIST_L1" /\ (txns < WL1_MIN_TXNS \/ liq < WL1_MIN_LIQ)
             THEN "REJECT" ELSE cand0

\* _classify_by_drop
ClassifyByDrop(drop, liq, txns, buys) ==
    IF PctLess(drop, WL1_MIN_DROP) THEN "REJECT"
    ELSE IF ~ PctLess(drop, SIGNAL_MIN_DROP) /\ PctLeq(drop, SIGNAL_MAX_DROP)
    THEN IF txns >= TXNS_SIGNAL /\ buys >= BUYS_MIN /\ liq >= LIQ_SIGNAL
         THEN "SIGNAL" ELSE "REJECT"
    ELSE LET cand0 == IF ~ PctLess(drop, WL3_MIN_DROP) /\ PctLess(drop, SIGNAL_MIN_DROP)
                      THEN "WATCHLIST_L3"
                      ELSE IF ~ PctLess(drop, WL2_MIN_DROP) /\ PctLess(drop, WL3_MIN_DROP)
                      THEN "WATCHLIST_L2"
                      ELSE "WATCHLIST_L1"
             cand1 == IF cand0 = "WATCHLIST_L3" /\ (txns < WL3_MIN_TXNS \/ liq < WL3_MIN_LIQ)
                      THEN "WATCHLIST_L2" ELSE cand0
             cand2 == IF cand1 = "WATCHLIST_L2" /\ (txns < WL2_MIN_TXNS \/ liq < WL2_MIN_LIQ)
                      THEN "WATCHLIST_L1" ELSE cand1
         IN  IF cand2 = "WATCHLIST_L1" /\ (txns < WL1_MIN_TXNS \/ liq < WL1_MIN_LIQ)
             THEN "REJECT" ELSE cand2

\* _validate_ath_activity
ValidateAthActivity(activity) ==
    /\ activity.snapshots_count >= ATH_MIN_SNAPSHOTS_IN_WINDOW
    /\ activity.txns_sum >= ATH_MIN_TXNS_IN_WINDOW
    /\ activity.volume_sum >= ATH_MIN_VOLUME_IN_WINDOW

\* mutant: the fallback loop without the test price <= current_price
FirstValidAnyPrice(snaps, p, candidates, current_price) ==
    LET ok == {i \in 2..Len(candidates) :
                  ValidateAthActivity(
                      FetchActivityWindow(snaps, p, candidates[i].snapshot_ts,
                                          ATH_VALIDATE_WINDOW_SEC))}
    IN  IF ok = {} THEN 0 ELSE CHOOSE i \in ok : \A j \in ok : i <= j

\* the fallback loop of _find_valid_ath over candidates[1:]: the index of
\* the first candidate above the current price whose window validates, 0 if
\* there is none
FirstValid(snaps, p, candidates, current_price) ==
    LET ok == {i \in 2..Len(candidates) :
                  /\ candidates[i].price_usd > 0
                  /\ candidates[i].price_usd > current_price
                  /\ ValidateAthActivity(
                         FetchActivityWindow(snaps, p, candidates[i].snapshot_ts,
                                             ATH_VALIDATE_WINDOW_SEC))}
    IN  IF ok = {} THEN 0 ELSE CHOOSE i \in ok : \A j \in ok : i <= j

\* the results of _find_valid_ath: kind is "none" (None), "bootstrap"
\* (("BOOTSTRAP", activity)) or "valid" (price, ts, activity, source)
NoAth == [kind |-> "none", ath_price |-> NULL, ath_ts |-> NULL, ath_source |-> "-"]
BootstrapAth == [NoAth EXCEPT !.kind = "bootstrap"]
ValidAth(price, ts, source) ==
    [kind |-> "valid", ath_price |-> price, ath_ts |-> ts, ath_source |-> source]

\* _find_valid_ath after the raw ATH failed validation with `activity`:
\* the fallback candidates, then BOOTSTRAP or None
AthFallback(snaps, p, current_price, candidates, activity) ==
    LET k == FirstValid(snaps, p, candidates, current_price)
    IN  IF k > 0
        THEN ValidAth(candidates[k].price_usd, candidates[k].snapshot_ts, "fallback")
        ELSE IF activity.snapshots_count < ATH_MIN_SNAPSHOTS_IN_WINDOW
             THEN BootstrapAth
             ELSE NoAth

\* _find_valid_ath from the activity window of the raw ATH on
AthValidated(snaps, p, since_ts, current_price, ath_point, activity) ==
    IF ValidateAthActivity(activity)
    THEN ValidAth(ath_point.ath_price, ath_point.ath_ts, "raw")
    ELSE AthFallback(snaps, p, current_price,
                     FetchAthCandidates(snaps, p, since_ts, ATH_FALLBACK_MAX_ATTEMPTS),
                     activity)

\* _find_valid_ath from the result of fetch_ath_point on
AthFromPoint(snaps, p, since_ts, current_price, ath_point) ==
    IF ath_point.ath_price = NULL THEN NoAth
    ELSE IF /\ ath_point.ath_ts = ath_point.current_ts
            /\ ath_point.ath_price = current_price
    THEN NoAth
    ELSE AthValidated(snaps, p, since_ts, current_price, ath_point,
                      FetchActivityWindow(snaps, p, ath_point.ath_ts,
                                          ATH_VALIDATE_WINDOW_SEC))

\* _find_valid_ath
FindValidAth(snaps, p, since_ts, current_price) ==
    AthFromPoint(snaps, p, since_ts, current_price, FetchAthPoint(snaps, p, since_ts))

\* no run of the screener in progress, none made yet
NoRun ==
    [active |-> FALSE, now_ms |-> NULL, todo |-> {},
     signals |-> <<>>, watchlist_bootstrap |-> <<>>,
     watchlist_l3 |-> <<>>, watchlist_l2 |-> <<>>, watchlist_l1 |-> <<>>]

\* drop_from_ath = None
NoDrop == [num |-> 0, den |-> 0]

\* the dict StrategyEngine.run appends to one of its lists (url left out)
RunEntry(p, current_price, ath_price, drop_from_ath, liq, vol, txns_h24, buys_h24) ==
    [pair_address |-> p, current_price |-> current_price, ath_price |-> ath_price,
     drop_from_ath |-> drop_from_ath, score |-> drop_from_ath,
     liquidity_usd |-> liq, volume_h24 |-> vol, txns_h24 |-> txns_h24,
     buys_h24 |-> buys_h24]

\* mutant: the comparison of the cooldown test inverted
InCooldownInverted(cooldowns, p, now_ms) ==
    /\ p \in DOMAIN cooldowns
    /\ now_ms - cooldowns[p] > SIGNAL_COOLDOWN_SEC * 1000

\* the cooldown test of StrategyEngine.run:
\* last_signal is not None and (now_ms - last_signal) / 1000 < SIGNAL_COOLDOWN_SEC
InCooldown(cooldowns, p, now_ms) ==
    /\ p \in DOMAIN cooldowns
    /\ now_ms - cooldowns[p] < SIGNAL_COOLDOWN_SEC * 1000

\* mutant: the liquidity floor left out of the bootstrap filters
BootstrapNoLiq(liq, vol, txns_h24) ==
    vol < STRATEGY_MIN_VOL \/ txns_h24 < BOOTSTRAP_MIN_TXNS

\* mutant: the transaction floor left out of the bootstrap filters
BootstrapNoTxns(liq, vol, txns_h24) ==
    liq < BOOTSTRAP_MIN_LIQ \/ vol < STRATEGY_MIN_VOL

\* the filters of the two bootstrap branches of StrategyEngine.run
BootstrapFiltersFail(liq, vol, txns_h24) ==
    liq < BOOTSTRAP_MIN_LIQ \/ vol < STRATEGY_MIN_VOL \/ txns_h24 < BOOTSTRAP_MIN_TXNS

\* the hard filters of StrategyEngine.run on a pair with a valid ATH
HardFiltersFail(liq, vol, txns_h24) ==
    liq < STRATEGY_MIN_LIQ \/ vol < STRATEGY_MIN_VOL \/ txns_h24 < STRATEGY_MIN_TXNS

\* the body of the loop of StrategyEngine.run for one pair row: the decision
\* it reaches ("SKIP" for a continue that records nothing), with the entry
\* and the reasons it records
Outcome(p, pair_row, snaps, prs, cooldowns, now_ms) ==
    LET pair_created_at_ms == Nz(pair_row.pair_created_at_ms)
        has_created == pair_created_at_ms # 0 /\ pair_created_at_ms > 0
        current_price == FetchLatestPrice(snaps, prs, p)
        since_ts == IF has_created THEN pair_created_at_ms ELSE NULL
        liq == Nz(pair_row.liquidity_usd)
        vol == Nz(pair_row.volume_h24)
        buys_h24 == Nz(pair_row.txns_h24_buys)
        sells_h24 == Nz(pair_row.txns_h24_sells)
        txns_h24 == buys_h24 + sells_h24
        ath == FindValidAth(snaps, p, since_ts, current_price)
        drop_from_ath == ComputeDropFromAth(ath.ath_price, current_price)
        decision == ClassifyByDrop(drop_from_ath, liq, txns_h24, buys_h24)
        skip == [decision |-> "SKIP", reason |-> "-", ath_source |-> "-",
                 entry |-> RunEntry(p, current_price, NULL, NoDrop, liq, vol,
                                    txns_h24, buys_h24)]
        bootstrap ==
            IF BootstrapFiltersFail(liq, vol, txns_h24)
            THEN skip
            ELSE [skip EXCEPT !.decision = "WATCHLIST_BOOTSTRAP",
                              !.reason = "insufficient_price_history"]
        full == [decision |-> decision, reason |-> "-", ath_source |-> ath.ath_source,
                 entry |-> RunEntry(p, current_price, ath.ath_price, drop_from_ath,
                                    liq, vol, txns_h24, buys_h24)]
    IN  IF has_created /\ now_ms - pair_created_at_ms > STRATEGY_MAX_AGE_HOURS * HOUR_MS
        THEN skip
        ELSE IF current_price = NULL \/ current_price <= 0 THEN skip
        ELSE IF GetSnapshotCount(snaps, p) < BOOTSTRAP_MIN_SNAPSHOTS THEN bootstrap
        ELSE IF ath.kind = "none"
        THEN [skip EXCEPT !.decision = "REJECT", !.reason = "valid_ath_not_found"]
        ELSE IF ath.kind = "bootstrap" THEN bootstrap
        ELSE IF ath.ath_price <= 0 \/ ath.ath_price = current_price THEN skip
        ELSE IF HardFiltersFail(liq, vol, txns_h24)
        THEN skip
        ELSE IF decision = "REJECT"
        THEN [full EXCEPT !.reason = IF PctLess(drop_from_ath, WL1_MIN_DROP)
                                     THEN "drop_below_wl1"
                                     ELSE "market_quality_downgrade"]
        ELSE IF decision = "SIGNAL" /\ InCooldown(cooldowns, p, now_ms)
        THEN [full EXCEPT !.decision = "SKIP"]
        ELSE full

\* the row insert_strategy_decision appends and upserts, decided_at read
\* from the clock
DecisionRow(o, t) ==
    [pair_address |-> o.entry.pair_address, decided_at |-> t, decision |-> o.decision,
     current_price |-> o.entry.current_price, ath_price |-> o.entry.ath_price,
     drop_from_ath |-> o.entry.drop_from_ath, reason |-> o.reason,
     ath_source |-> o.ath_source]

\* the row insert_signal_event appends
SignalEventRow(id, o, signal_ts) ==
    [id |-> id, pair_address |-> o.entry.pair_address, signal_ts |-> signal_ts,
     entry_price |-> o.entry.current_price, ath_price |-> o.entry.ath_price,
     drop_from_ath |-> o.entry.drop_from_ath, score |-> o.entry.score]

\* a row of signal_evaluations as insert_signal_evaluation leaves it: the
\* columns it does not name are NULL (NoDrop for a percentage); the id of a
\* row is its position, rows are never deleted
PendingEvaluation(signal_id, horizon_sec) ==
    [signal_id |-> signal_id, horizon_sec |-> horizon_sec, status |-> "PENDING",
     evaluated_at |-> NULL, price_end |-> NULL, max_price |-> NULL, min_price |-> NULL,
     return_end_pct |-> NoDrop, max_return_pct |-> NoDrop, min_return_pct |-> NoDrop]

\* the NULL of the text column outcome
NoOutcome == "-"

\* a row of signal_trigger_evaluations as insert_trigger_eval_pending leaves it
PendingTriggerEval ==
    [status |-> "PENDING", evaluated_at |-> NULL, outcome |-> NoOutcome,
     tp1_hit_ts |-> NULL, sl_hit_ts |-> NULL, tp1_price |-> NULL, sl_price |-> NULL,
     mfe_pct |-> NoDrop, mae_pct |-> NoDrop, max_price |-> NULL, min_price |-> NULL,
     bu_hit_after_tp1 |-> NULL, post_tp1_max_pct |-> NoDrop, post_tp1_max_price |-> NULL]

\* mutant: the last horizon left out (range(len - 1))
PendingEvaluationsShort(signal_id) ==
    [i \in 1..(Len(POST_HORIZONS_SEC) - 1) |->
        PendingEvaluation(signal_id, POST_HORIZONS_SEC[i])]

\* the rows insert_signal_evaluation appends for POST_HORIZONS_SEC
PendingEvaluations(signal_id) ==
    [i \in 1..Len(POST_HORIZONS_SEC) |->
        PendingEvaluation(signal_id, POST_HORIZONS_SEC[i])]

MaxDecisions == 2

\* StrategyEngine.run up to its loop: the clock is read once, the lists are
\* empty, the rows of SELECT * FROM pairs are still to be visited
RunStart ==
    /\ ~ run.active
    /\ Len(strategy_decisions) < MaxDecisions
    /\ run' = [NoRun EXCEPT !.active = (DOMAIN pairs # {}), !.now_ms = now,
                            !.todo = DOMAIN pairs]
    /\ last_op' = [op |-> "run_start", pair |-> "-", ret |-> 0]
    /\ UNCHANGED netVars
    /\ UNCHANGED <<now, storeVars, strategy_decisions, strategy_latest, signal_cooldowns,
                   signal_events, signal_evaluations, signal_trigger_evaluations>>

\* one iteration of the loop of StrategyEngine.run, on pair p; run returns
\* its lists when no pair is left
RunPair(p) ==
    /\ run.active
    /\ p \in run.todo
    /\ LET o == Outcome(p, pairs[p], snapshots, pairs, signal_cooldowns, run.now_ms)
           d == o.decision
           signal_id == Len(signal_events) + 1
           left == run.todo \ {p}
       IN  /\ run' = [run EXCEPT
                  !.todo = left,
                  !.active = (left # {}),
                  !.signals = IF d = "SIGNAL" THEN Append(@, o.entry) ELSE @,
                  !.watchlist_bootstrap =
                      IF d = "WATCHLIST_BOOTSTRAP" THEN Append(@, o.entry) ELSE @,
                  !.watchlist_l3 = IF d = "WATCHLIST_L3" THEN Append(@, o.entry) ELSE @,
                  !.watchlist_l2 = IF d = "WATCHLIST_L2" THEN Append(@, o.entry) ELSE @,
                  !.watchlist_l1 = IF d = "WATCHLIST_L1" THEN Append(@, o.entry) ELSE @]
           /\ IF d = "SKIP"
              THEN UNCHANGED <<strategy_decisions, strategy_latest>>
              ELSE /\ strategy_decisions' = Append(strategy_decisions, DecisionRow(o, now))
                   /\ strategy_latest' = Put(strategy_latest, p, DecisionRow(o, now))
           /\ IF d = "SIGNAL"
              THEN /\ signal_cooldowns' = Put(signal_cooldowns, p, now)
                   /\ signal_events' =
                          Append(signal_events, SignalEventRow(signal_id, o, run.now_ms))
                   /\ signal_trigger_evaluations' =
                          IF signal_id \in DOMAIN signal_trigger_evaluations
                          THEN signal_trigger_evaluations
                          ELSE Put(signal_trigger_evaluations, signal_id,
                                   PendingTriggerEval)
                   /\ signal_evaluations' =
                          signal_evaluations \o PendingEvaluations(signal_id)
              ELSE UNCHANGED <<signal_cooldowns, signal_events,
                               signal_trigger_evaluations, signal_evaluations>>
    /\ last_op' = [op |-> "run_pair", pair |-> p, ret |-> 0]
    /\ UNCHANGED netVars
    /\ UNCHANGED <<now, storeVars>>

-----------------------------------------------------------------------------
(* The outcome analyzers *)

\* signal_ts > 10**12: every signal_ts is a clock reading in ms, which is
\* above 10**12 on the unshifted time axis
SignalTsIsMs == TRUE

HorizonUnit(horizon_sec) == IF SignalTsIsMs THEN horizon_sec * 1000 ELSE horizon_sec

\* Database.iterate_snapshots(pair_address, since_ts, until_ts), ORDER BY
\* snapshot_ts ASC: snapshots are stored in the order of their timestamps
IterateSnapshots(snaps, p, since_ts, until_ts) ==
    SelectSeq(PairRows(snaps, p),
              LAMBDA r : r.snapshot_ts >= since_ts /\ r.snapshot_ts <= until_ts)

\* (price - entry_price) / entry_price * 100
ReturnPct(price, entry_price) == Pct(price - entry_price, entry_price)

\* mutant: the first price of the window taken for its maximum
WindowMaxAsFirst(rows) == rows[1].price_usd

\* max(prices), min(prices) over a non-empty list of rows
WindowMax(rows) ==
    CHOOSE x \in {rows[i].price_usd : i \in 1..Len(rows)} :
        \A i \in 1..Len(rows) : rows[i].price_usd <= x

WindowMin(rows) ==
    CHOOSE x \in {rows[i].price_usd : i \in 1..Len(rows)} :
        \A i \in 1..Len(rows) : rows[i].price_usd >= x

\* mutant: the window closed one horizon later
PostWindowLate(snaps, sig, horizon_sec) ==
    PricedRows(IterateSnapshots(snaps, sig.pair_address,
        NormalizeSinceTs(sig.signal_ts, SnapshotTsIsMs),
        NormalizeSinceTs(sig.signal_ts + 2 * HorizonUnit(horizon_sec), SnapshotTsIsMs)))

\* the rows run_post_analysis takes its prices from
PostWindow(snaps, sig, horizon_sec) ==
    PricedRows(IterateSnapshots(snaps, sig.pair_address,
        NormalizeSinceTs(sig.signal_ts, SnapshotTsIsMs),
        NormalizeSinceTs(sig.signal_ts + HorizonUnit(horizon_sec), SnapshotTsIsMs)))

\* the row update_evaluation_done leaves
EvaluationDone(e, rows, entry_price, now_ts) ==
    [e EXCEPT !.status = "DONE", !.evaluated_at = now_ts,
              !.price_end = rows[Len(rows)].price_usd,
              !.max_price = WindowMax(rows),
              !.min_price = WindowMin(rows),
              !.return_end_pct = ReturnPct(rows[Len(rows)].price_usd, entry_price),
              !.max_return_pct = ReturnPct(WindowMax(rows), entry_price),
              !.min_return_pct = ReturnPct(WindowMin(rows), entry_price)]

\* the body of the loop of run_post_analysis for one yielded evaluation
PostEvaluate(snaps, e, sig, now_ts) ==
    IF Len(PostWindow(snaps, sig, e.horizon_sec)) = 0 \/ sig.entry_price <= 0
    THEN [e EXCEPT !.status = "NO_DATA"]
    ELSE EvaluationDone(e, PostWindow(snaps, sig, e.horizon_sec), sig.entry_price, now_ts)

\* iter_pending_evaluations(now_ts) yields the row
Yielded(e, sig, now_ts) ==
    /\ e.status = "PENDING"
    /\ ~ (now_ts < sig.signal_ts + HorizonUnit(e.horizon_sec))

\* the table signal_evaluations after run_post_analysis(db, now_ts)
PostAnalysisResult(evals, events, snaps, now_ts) ==
    [i \in 1..Len(evals) |->
        IF Yielded(evals[i], events[evals[i].signal_id], now_ts)
        THEN PostEvaluate(snaps, evals[i], events[evals[i].signal_id], now_ts)
        ELSE evals[i]]

\* run_post_analysis(db, now_ts) with now_ts read from the clock
RunPostAnalysis ==
    /\ signal_evaluations' =
           PostAnalysisResult(signal_evaluations, signal_events, snapshots, now)
    /\ UNCHANGED netVars
    /\ UNCHANGED <<now, storeVars, strategy_decisions, strategy_latest,
                   signal_cooldowns, signal_events, signal_trigger_evaluations, run,
                   histVars>>

\* the points of run_trigger_analysis: priced snapshots of the pair in
\* [signal_ts, signal_ts + TRIGGER_EVAL_MAX_AGE_SEC], by ascending time
TriggerPoints(snaps, sig) ==
    PricedRows(IterateSnapshots(snaps, sig.pair_address,
        NormalizeSinceTs(sig.signal_ts, SnapshotTsIsMs),
        IF SnapshotTsIsMs
        THEN sig.signal_ts + TRIGGER_EVAL_MAX_AGE_SEC * 1000
        ELSE (IF SignalTsIsMs THEN sig.signal_ts \div 1000 ELSE sig.signal_ts)
                 + TRIGGER_EVAL_MAX_AGE_SEC))

\* mutant: TP1 needs a return above TP1_PCT
Tp1HitStrict(price, entry_price) == ~ PctLeq(ReturnPct(price, entry_price), TP1_PCT)

\* pct >= tp1_pct, pct <= sl_pct
Tp1Hit(price, entry_price) == ~ PctLess(ReturnPct(price, entry_price), TP1_PCT)
SlHit(price, entry_price) == PctLeq(ReturnPct(price, entry_price), SL_PCT)

\* the index of the first point with a TP1 / SL hit, 0 if there is none
FirstTp1(points, entry_price) ==
    LET hits == {i \in 1..Len(points) : Tp1Hit(points[i].price_usd, entry_price)}
    IN  IF hits = {} THEN 0 ELSE CHOOSE i \in hits : \A j \in hits : i <= j

FirstSl(points, entry_price) ==
    LET hits == {i \in 1..Len(points) : SlHit(points[i].price_usd, entry_price)}
    IN  IF hits = {} THEN 0 ELSE CHOOSE i \in hits : \A j \in hits : i <= j

\* the outcome from the two hit timestamps (NULL: no hit)
OutcomeOf(tp1_hit_ts, sl_hit_ts) ==
    IF tp1_hit_ts # NULL /\ (sl_hit_ts = NULL \/ tp1_hit_ts < sl_hit_ts) THEN "TP1_FIRST"
    ELSE IF sl_hit_ts # NULL /\ (tp1_hit_ts = NULL \/ sl_hit_ts < tp1_hit_ts) THEN "SL_FIRST"
    ELSE "NEITHER"

\* mutant: the points after TP1 taken without the TP1 point itself
AfterTp1Strict(points, tp1_hit_ts) ==
    SelectSeq(points, LAMBDA r : r.snapshot_ts > tp1_hit_ts)

\* after_tp1: the points with ts >= tp1_hit_ts
AfterTp1(points, tp1_hit_ts) ==
    SelectSeq(points, LAMBDA r : r.snapshot_ts >= tp1_hit_ts)

\* 1 if any price of the rows is <= entry_price, else 0
BuHit(rows, entry_price) ==
    IF \E i \in 1..Len(rows) : rows[i].price_usd <= entry_price THEN 1 ELSE 0

\* the three columns written after a TP1_FIRST outcome
PostTp1(t, after_tp1, tp1_price, entry_price) ==
    IF Len(after_tp1) > 0
    THEN [t EXCEPT !.bu_hit_after_tp1 = BuHit(after_tp1, entry_price),
                   !.post_tp1_max_pct = ReturnPct(WindowMax(after_tp1), entry_price),
                   !.post_tp1_max_price = WindowMax(after_tp1)]
    ELSE [t EXCEPT !.bu_hit_after_tp1 = 0,
                   !.post_tp1_max_pct = ReturnPct(tp1_price, entry_price),
                   !.post_tp1_max_price = tp1_price]

\* the row update_trigger_eval_done leaves, from the indices of the hits
TriggerDone(t, points, entry_price, tp1, sl, now_ts) ==
    LET tp1_hit_ts == IF tp1 = 0 THEN NULL ELSE points[tp1].snapshot_ts
        sl_hit_ts == IF sl = 0 THEN NULL ELSE points[sl].snapshot_ts
        tp1_price == IF tp1 = 0 THEN NULL ELSE points[tp1].price_usd
        outcome == OutcomeOf(tp1_hit_ts, sl_hit_ts)
        base == [t EXCEPT !.status = "DONE", !.evaluated_at = now_ts,
                          !.outcome = outcome,
                          !.tp1_hit_ts = tp1_hit_ts, !.sl_hit_ts = sl_hit_ts,
                          !.tp1_price = tp1_price,
                          !.sl_price = IF sl = 0 THEN NULL ELSE points[sl].price_usd,
                          !.mfe_pct = ReturnPct(WindowMax(points), entry_price),
                          !.mae_pct = ReturnPct(WindowMin(points), entry_price),
                          !.max_price = WindowMax(points),
                          !.min_price = WindowMin(points)]
    IN  IF outcome = "TP1_FIRST" /\ tp1_hit_ts # NULL
        THEN PostTp1(base, AfterTp1(points, tp1_hit_ts), tp1_price, entry_price)
        ELSE base

\* mutant: a row whose window is still open at now_ts is closed NO_DATA
TriggerEvaluateOpenNoData(snaps, t, sig, now_ts) ==
    IF \/ sig.entry_price <= 0
       \/ Len(TriggerPoints(snaps, sig)) < TRIGGER_EVAL_MIN_SNAPSHOTS
       \/ now_ts < sig.signal_ts + TRIGGER_EVAL_MAX_AGE_SEC * 1000
    THEN [t EXCEPT !.status = "NO_DATA", !.evaluated_at = now_ts]
    ELSE TriggerDone(t, TriggerPoints(snaps, sig), sig.entry_price,
                     FirstTp1(TriggerPoints(snaps, sig), sig.entry_price),
                     FirstSl(TriggerPoints(snaps, sig), sig.entry_price), now_ts)

\* the body of the loop of run_trigger_analysis for one pending row;
\* update_trigger_eval_no_data stamps evaluated_at from the clock
TriggerEvaluate(snaps, t, sig, now_ts) ==
    IF sig.entry_price <= 0 \/ Len(TriggerPoints(snaps, sig)) < TRIGGER_EVAL_MIN_SNAPSHOTS
    THEN [t EXCEPT !.status = "NO_DATA", !.evaluated_at = now_ts]
    ELSE TriggerDone(t, TriggerPoints(snaps, sig), sig.entry_price,
                     FirstTp1(TriggerPoints(snaps, sig), sig.entry_price),
                     FirstSl(TriggerPoints(snaps, sig), sig.entry_price), now_ts)

\* mutant: the rows selected whatever their status
SelectedAnyStatus(evals, limit) ==
    {id \in DOMAIN evals :
        Cardinality({j \in DOMAIN evals : j < id}) < Max2(1, limit)}

\* iter_pending_trigger_evals(limit): WHERE status = 'PENDING' ORDER BY
\* signal_id ASC LIMIT max(1, limit)
Selected(evals, limit) ==
    {id \in DOMAIN evals :
        /\ evals[id].status = "PENDING"
        /\ Cardinality({j \in DOMAIN evals : evals[j].status = "PENDING" /\ j < id})
               < Max2(1, limit)}

\* the table signal_trigger_evaluations after run_trigger_analysis(db,
\* now_ts, limit)
TriggerAnalysisResult(evals, events, snaps, now_ts, limit) ==
    [id \in DOMAIN evals |->
        IF id \in Selected(evals, limit)
        THEN TriggerEvaluate(snaps, evals[id], events[id], now_ts)
        ELSE evals[id]]

\* run_trigger_analysis(db, now_ts, limit) with now_ts read from the clock
RunTriggerAnalysis(limit) ==
    /\ signal_trigger_evaluations' =
           TriggerAnalysisResult(signal_trigger_evaluations, signal_events,
                                 snapshots, now, limit)
    /\ UNCHANGED netVars
    /\ UNCHANGED <<now, storeVars, strategy_decisions, strategy_latest,
                   signal_cooldowns, signal_events, signal_evaluations, run, histVars>>

-----------------------------------------------------------------------------
(* The lock file of a database: core/lock.py *)

\* the number of processes that share one db path
MaxProcs == 3
Pids == 1 .. MaxProcs

\* <db_path>.lock does not exist; an existing lock file is modelled by the
\* pid of its first field
NoLockFile == 0

\* file is the lock file, alive the set of pids for which os.kill(pid, 0)
\* succeeds, at[p] the place of process p in try_acquire_db_lock ("write":
\* past the test of lines 41-50, before the write of line 55), ret[p] what
\* the last try_acquire_db_lock of p returned ("-" before the first call and
\* after release_db_lock)
NoDbLock ==
    [file |-> NoLockFile, alive |-> Pids,
     at |-> [p \in Pids |-> "idle"], ret |-> [p \in Pids |-> "-"]]

\* try_acquire_db_lock, lines 37-50: refuse when the lock file names a live
\* pid, go on to the write otherwise. A process whose last call returned True
\* does not call again before it releases.
TryAcquireTest(p) ==
    /\ p \in db_lock.alive
    /\ db_lock.at[p] = "idle"
    /\ db_lock.ret[p] # "True"
    /\ db_lock' = IF db_lock.file # NoLockFile /\ db_lock.file \in db_lock.alive
                  THEN [db_lock EXCEPT !.ret[p] = "False"]
                  ELSE [db_lock EXCEPT !.at[p] = "write"]
    /\ UNCHANGED <<now, storeVars, screenVars, histVars, client, collect_new, app_status>>

\* try_acquire_db_lock, lines 53-58: write_text replaces the file whatever
\* it holds by now; an OSError makes the call return False
TryAcquireWrite(p, oserror) ==
    /\ p \in db_lock.alive
    /\ db_lock.at[p] = "write"
    /\ db_lock' = IF oserror
                  THEN [db_lock EXCEPT !.at[p] = "idle", !.ret[p] = "False"]
                  ELSE [db_lock EXCEPT !.at[p] = "idle", !.ret[p] = "True",
                                       !.file = p]
    /\ UNCHANGED <<now, storeVars, screenVars, histVars, client, collect_new, app_status>>

\* release_db_lock: the file is removed only when it names the caller
ReleaseDbLock(p) ==
    /\ p \in db_lock.alive
    /\ db_lock.at[p] = "idle"
    /\ db_lock.ret[p] # "-"
    /\ db_lock' = [db_lock EXCEPT !.ret[p] = "-",
                                  !.file = IF @ = p THEN NoLockFile ELSE @]
    /\ UNCHANGED <<now, storeVars, screenVars, histVars, client, collect_new, app_status>>

\* process p ends without releasing; its pid is not reused
Die(p) ==
    /\ p \in db_lock.alive
    /\ db_lock' = [db_lock EXCEPT !.alive = @ \ {p}, !.at[p] = "idle",
                                  !.ret[p] = "-"]
    /\ UNCHANGED <<now, storeVars, screenVars, histVars, client, collect_new, app_status>>

-----------------------------------------------------------------------------
(* The HTTP client: client.py *)

DEFAULT_MAX_RETRIES == 4
CHECK_MAX_RETRIES == 2
DEFAULT_RATE_LIMIT_RPS == 3
CHECK_RATE_LIMIT_RPS == 2
\* backoff_base of DexScreenerClient.__init__, in ms
BACKOFF_BASE_MS == 500
\* the upper end of random.uniform(0, 0.2), in ms
JITTER_MAX_MS == 200

\* the state before DexScreenerClient(...) is called. last_request_ts is
\* _last_request_ts; prev_request_ts and requests are history: the time of
\* the request before the last one and the number of requests sent. path
\* is the argument of the _request in progress ("-" when there is none),
\* attempt the loop variable, resp the outcome of the last attempt, result
\* how the last _request ended, slept the delay of the time.sleep that
\* followed the last attempt (0 when there was none).
NoClient ==
    [made |-> FALSE, max_retries |-> 0, rate_limit_rps |-> 0,
     last_request_ts |-> 0, prev_request_ts |-> NULL, requests |-> 0,
     path |-> "-", attempt |-> 0, resp |-> "-", result |-> "-", slept |-> 0]

\* mutant: _throttle without the sleep
ThrottleNoSleep(last_request_ts, rate_limit_rps, t) == t

\* the clock reading at which _throttle, entered at t, stamps
\* _last_request_ts: after a sleep of min_interval - elapsed when
\* elapsed < min_interval = 1 / rate_limit_rps
Throttle(last_request_ts, rate_limit_rps, t) ==
    IF rate_limit_rps > 0 /\ (t - last_request_ts) * rate_limit_rps < 1000
    THEN last_request_ts + 1000 \div rate_limit_rps
    ELSE t

\* what one attempt can end with: a status code, httpx.TimeoutException,
\* httpx.ConnectError, or another transport error (httpx.ReadError)
Responses == {"200", "404", "429", "500", "timeout", "connect_error", "read_error"}

\* the attempt raises inside the try block an exception that the except
\* clause of _request names: HTTPStatusError raised for 429 and >= 500,
\* HTTPStatusError raised by resp.raise_for_status() for the other error
\* statuses, TimeoutException, ConnectError
Caught(resp) == resp \in {"429", "500", "404", "timeout", "connect_error"}

\* delay before the next attempt, ms
Backoff(attempt, jitter) == BACKOFF_BASE_MS * (2 ^ attempt) + jitter

\* mutant: the loop of _request going round once more (range(max_retries + 1))
AttemptedOnceMore(c, resp, t) ==
    LET sent == [c EXCEPT !.last_request_ts = t,
                          !.prev_request_ts = IF c.requests = 0 THEN NULL
                                              ELSE c.last_request_ts,
                          !.requests = @ + 1,
                          !.resp = resp]
    IN  IF resp = "200" THEN [sent EXCEPT !.path = "-", !.result = "returned"]
        ELSE IF Caught(resp) /\ c.attempt < c.max_retries
             THEN [sent EXCEPT !.attempt = @ + 1]
             ELSE [sent EXCEPT !.path = "-", !.result = "raised"]

\* the client after one iteration of the loop of _request: _throttle
\* returning at t, the GET ending with resp, and the handling of resp
Attempted(c, resp, t) ==
    LET sent == [c EXCEPT !.last_request_ts = t,
                          !.prev_request_ts = IF c.requests = 0 THEN NULL
                                              ELSE c.last_request_ts,
                          !.requests = @ + 1,
                          !.resp = resp]
    IN  IF resp = "200" THEN [sent EXCEPT !.path = "-", !.result = "returned"]
        ELSE IF Caught(resp) /\ c.attempt < c.max_retries - 1
             THEN [sent EXCEPT !.attempt = @ + 1]
             ELSE [sent EXCEPT !.path = "-", !.result = "raised"]

\* DexScreenerClient.__init__
Construct(max_retries, rate_limit_rps) ==
    /\ ~ client.made
    /\ client' = [NoClient EXCEPT !.made = TRUE, !.max_retries = max_retries,
                                  !.rate_limit_rps = rate_limit_rps]
    /\ UNCHANGED <<now, storeVars, screenVars, histVars, collect_new, app_status, db_lock>>

\* a call of _request(path) begins, gap ms after the previous call ended
Request(path, gap) ==
    /\ client.made
    /\ client.path = "-"
    /\ client' = [client EXCEPT !.path = path, !.attempt = 0, !.resp = "-",
                                 !.result = "-", !.slept = 0]
    /\ now' = now + gap
    /\ UNCHANGED <<storeVars, screenVars, histVars, collect_new, app_status, db_lock>>

\* one iteration of the loop of _request, the sleep before the next one
\* included
Attempt(resp, dur, jitter) ==
    /\ client.made
    /\ client.path # "-"
    /\ LET t == Throttle(client.last_request_ts, client.rate_limit_rps, now)
           c == Attempted(client, resp, t)
           delay == IF c.path # "-" THEN Backoff(client.attempt, jitter) ELSE 0
       IN  /\ client' = [c EXCEPT !.slept = delay]
           /\ now' = t + dur + delay
    /\ UNCHANGED <<storeVars, screenVars, histVars, collect_new, app_status, db_lock>>

\* cmd_collect_new not running. phase is the place in the function; shutdown,
\* cycle_num and raw_pairs are its locals, no_prune its argument; fetch tells
\* how the fetches of the cycle ended; ingested, pruned and failed tell
\* whether the cycle has called collect_from_raw_pairs, has pruned, and has
\* reached the except clause; sigints counts the signals delivered and
\* cancelled_in is the cycle that was in progress at the first one.
NoCollectNew ==
    [phase |-> "not_started", shutdown |-> FALSE, no_prune |-> FALSE,
     cycle_num |-> 0, fetch |-> "-", raw_pairs |-> <<>>,
     ingested |-> FALSE, pruned |-> FALSE, failed |-> FALSE,
     sigints |-> 0, cancelled_in |-> 0]

\* the table app_status without its row: get_app_status() returns None
NoAppStatus ==
    [present |-> FALSE, last_cycle_started_at_ms |-> NULL,
     last_cycle_finished_at_ms |-> NULL, last_error |-> NoOutcome]

-----------------------------------------------------------------------------
(* The dump/reversal state machine under ingestion and pruning *)

DumpPairs == {"pA"}

\* a raw pair object of the provider, by the fields the state machine reads
DumpRaw(price, liq, vol, buys, sells) ==
    [price_usd |-> price, liquidity_usd |-> liq,
     volume_m5 |-> vol, txns_m5_buys |-> buys, txns_m5_sells |-> sells,
     volume_h24 |-> NULL, txns_h24_buys |-> NULL, txns_h24_sells |-> NULL,
     pair_created_at_ms |-> OldCreated]

\* the raw pairs ingested: a peak and a higher one, a drop of exactly 50 %
\* that passes the admission test, prices at exactly low * 1.003 and
\* low * 1.01 with and without buy pressure and volume, a lower low on a
\* pool with too little liquidity, and an object with every optional field
\* missing
DumpRaws ==
    { DumpRaw(2000, 10000, 500, 4, 5),
      DumpRaw(2020, 10000, 500, 4, 5),
      DumpRaw(1000, 10000, 500, 4, 5),
      DumpRaw(1003, 10000, 500, 4, 5),
      DumpRaw(1010, 10000, 500, 6, 5),
      DumpRaw(1010, 10000, 300, 6, 5),
      DumpRaw( 900,  9999, 500, 6, 5),
      DumpRaw(NULL,  NULL, NULL, NULL, NULL) }

vars == <<now, tokens, pairs, snapshots, snap_seq, dump_watchlist,
          strategy_decisions, strategy_latest, signal_cooldowns, signal_events,
          signal_evaluations, signal_trigger_evaluations, run, last_op,
          client, collect_new, app_status, db_lock>>

Init ==
    /\ now = StartClock
    /\ tokens = {}
    /\ pairs = <<>>
    /\ snapshots = <<>>
    /\ snap_seq = 0
    /\ dump_watchlist = <<>>
    /\ strategy_decisions = <<>>
    /\ strategy_latest = <<>>
    /\ signal_cooldowns = <<>>
    /\ signal_events = <<>>
    /\ signal_evaluations = <<>>
    /\ signal_trigger_evaluations = <<>>
    /\ run = NoRun
    /\ last_op = [op |-> "init", pair |-> "-", ret |-> 0]
    /\ client = NoClient
    /\ collect_new = NoCollectNew
    /\ app_status = NoAppStatus
    /\ db_lock = NoDbLock

NextDump ==
    \/ /\ snap_seq < MaxSnaps
       /\ \E p \in DumpPairs, raw \in DumpRaws : Ingest(p, raw)
    \/ \E p \in DumpPairs : Reinvoke(p)
    \/ PruneByPairAge(DEFAULT_PRUNE_MAX_AGE_HOURS)
    \/ PruneDumpWatchlist(DUMP_WATCHLIST_TTL_HOURS)

SpecDump == Init /\ [][NextDump]_vars

\* The same machine over hours of wall-clock time, for the TTL of the entries
TtlRaws ==
    { DumpRaw(2000, 10000, 500, 4, 5), DumpRaw(1000, 10000, 500, 4, 5),
      DumpRaw(2020, 10000, 500, 4, 5) }

MaxTtlSnaps == 3

NextDumpTtl ==
    \/ /\ snap_seq < MaxTtlSnaps
       /\ \E p \in DumpPairs, raw \in TtlRaws : Ingest(p, raw)
    \/ \E p \in DumpPairs : Reinvoke(p)
    \/ PruneByPairAge(DEFAULT_PRUNE_MAX_AGE_HOURS)
    \/ PruneDumpWatchlist(DUMP_WATCHLIST_TTL_HOURS)
    \/ Tick(HOUR_MS, MaxTicks)

SpecDumpTtl == Init /\ [][NextDumpTtl]_vars

-----------------------------------------------------------------------------
(* The screener over a growing price history *)

ScreenPairs == {"pA"}

\* created one hour before the clock starts: younger than
\* STRATEGY_MAX_AGE_HOURS at every reading
YoungCreated == StartClock - HOUR_MS

\* a raw pair object, by the fields the screener reads
ScreenRaw(price, liq, buys, sells) ==
    [price_usd |-> price, liquidity_usd |-> liq,
     volume_m5 |-> 100, txns_m5_buys |-> 1, txns_m5_sells |-> 1,
     volume_h24 |-> 500, txns_h24_buys |-> buys, txns_h24_sells |-> sells,
     pair_created_at_ms |-> YoungCreated]

\* a peak; drops from it of 20, 25, 50, 60 and 75 %; a drop of 50 % with
\* too few transactions for a SIGNAL; one on a pool below LIQ_SIGNAL; a
\* peak with fewer than STRATEGY_MIN_TXNS transactions
ScreenRaws ==
    { ScreenRaw(2000, 20000, 5, 5), ScreenRaw(1600, 20000, 5, 5),
      ScreenRaw(1500, 20000, 5, 5), ScreenRaw(1000, 20000, 5, 5),
      ScreenRaw( 800, 20000, 5, 5), ScreenRaw( 500, 20000, 5, 5),
      ScreenRaw(1000, 20000, 4, 5), ScreenRaw(1000,  4999, 5, 5),
      ScreenRaw(2000, 20000, 2, 2) }

MaxScreenSnaps == 2
MaxScreenTicks == 1

NextScreen ==
    \/ /\ ~ run.active
       /\ snap_seq < MaxScreenSnaps
       /\ \E p \in ScreenPairs, raw \in ScreenRaws : Ingest(p, raw)
    \/ RunStart
    \/ \E p \in ScreenPairs : RunPair(p)
    \/ Tick(HOUR_MS, MaxScreenTicks)

SpecScreen == Init /\ [][NextScreen]_vars

\* ---- the screener on the watchlist levels ----

\* drops of 45 and 35 % from the peak of 2000, on pools at and just below
\* WL3_MIN_LIQ and WL2_MIN_LIQ, with transaction counts at and just below
\* WL3_MIN_TXNS and WL2_MIN_TXNS
LevelRaws ==
    { ScreenRaw(2000, 20000, 5, 5) } \cup
    { ScreenRaw(price, liq, bs[1], bs[2]) :
        price \in {1100, 1300},
        liq \in {20000, 19999, 15000, 14999},
        bs \in {<<5, 5>>, <<5, 4>>, <<4, 3>>, <<3, 3>>} }

MaxLevelSnaps == 2

NextLevels ==
    \/ /\ ~ run.active
       /\ snap_seq < MaxLevelSnaps
       /\ \E p \in ScreenPairs, raw \in LevelRaws : Ingest(p, raw)
    \/ RunStart
    \/ \E p \in ScreenPairs : RunPair(p)

SpecLevels == Init /\ [][NextLevels]_vars

\* ---- the screener over a history of peaks, for the search of a valid ATH ----

\* the number of priced snapshots of the history: one more than
\* ATH_FALLBACK_MAX_ATTEMPTS, so that a candidate falls outside the LIMIT
MaxAthPeaks == 11

\* a raw pair object on a pool that passes every filter of the screener,
\* with the price and the 5-minute transaction count given
AthRaw(price, txns_m5) ==
    [ScreenRaw(price, 20000, 5, 5) EXCEPT !.txns_m5_buys = txns_m5, !.txns_m5_sells = 0]

\* the number of priced snapshots so far, and the last snapshot
AthPeaks == Len(HistoryRows(snapshots, "pA", NULL))
AthNewest == snapshots[Len(snapshots)]

\* the last snapshot is further back than half the activity window
AthSettled ==
    IF Len(snapshots) = 0 THEN TRUE
    ELSE (now - AthNewest.snapshot_ts) * 2 > ATH_VALIDATE_WINDOW_SEC * 1000

\* the prices of the snapshot that closes the history: a rebound to a price
\* between the second and the third peak, or a fall below every peak
AthClosing == {1985, 1500}

\* the history is built before the screener runs. It is a series of peaks
\* 300 s apart, each lower than the one before: the first with or without
\* transactions of its own, the first, second, third and the last two
\* possibly accompanied within a millisecond by an unpriced snapshot (which
\* puts two snapshots in the window of the peak), and possibly closed by a
\* snapshot priced in AthClosing
NextAth ==
    \/ /\ last_op.op \in {"init", "ingest"}
       /\ AthSettled
       /\ AthPeaks < MaxAthPeaks
       /\ IF Len(snapshots) = 0 THEN TRUE ELSE AthNewest.price_usd \notin AthClosing
       /\ \E txns \in (IF AthPeaks = 0 THEN {0, 1} ELSE {1}) :
              Ingest("pA", AthRaw(2000 - 10 * AthPeaks, txns))
    \/ /\ last_op.op = "ingest"
       /\ ~ AthSettled
       /\ AthNewest.price_usd \notin {NULL} \cup AthClosing
       /\ AthPeaks \in {1, 2, 3, MaxAthPeaks - 1, MaxAthPeaks}
       /\ \E txns \in (IF AthPeaks = 1 THEN {0, 1} ELSE {0}) :
              Ingest("pA", AthRaw(NULL, txns))
    \/ /\ last_op.op = "ingest"
       /\ AthSettled
       /\ AthPeaks >= 3
       /\ AthNewest.price_usd \notin AthClosing
       /\ \E price \in AthClosing : Ingest("pA", AthRaw(price, 1))
    \/ /\ last_op.op = "ingest"
       /\ ~ AthSettled
       /\ Tick(ATH_VALIDATE_WINDOW_SEC * 1000, 2)
    \/ RunStart
    \/ RunPair("pA")

SpecAth == Init /\ [][NextAth]_vars

\* ---- the screener followed by the outcome analyzers ----

\* before the first signal: a peak and a drop of 50 % from it, the entry price
SetupRaws == { ScreenRaw(2000, 20000, 5, 5), ScreenRaw(1000, 20000, 5, 5) }

\* after it: returns from the entry price of +40 %, -50 %, 0 and +100 %
FollowRaws ==
    { ScreenRaw(1400, 20000, 5, 5), ScreenRaw( 500, 20000, 5, 5),
      ScreenRaw(1000, 20000, 5, 5), ScreenRaw(2000, 20000, 5, 5) }

AnalyzeRaws == IF signal_events = <<>> THEN SetupRaws ELSE FollowRaws

\* the limits run_trigger_analysis is called with: one row, the default
TriggerLimits == {1, 100}

MaxAnalyzeSnaps == 4
MaxAnalyzeTicks == 2

NextAnalyze ==
    \/ /\ ~ run.active
       /\ snap_seq < (IF signal_events = <<>> THEN ATH_MIN_SNAPSHOTS_IN_WINDOW
                                               ELSE MaxAnalyzeSnaps)
       /\ \E p \in ScreenPairs, raw \in AnalyzeRaws : Ingest(p, raw)
    \/ /\ signal_events = <<>>
       /\ RunStart
    \/ \E p \in ScreenPairs : RunPair(p)
    \/ /\ signal_events # <<>>
       /\ ~ run.active
       /\ Tick(HOUR_MS, MaxAnalyzeTicks)
    \/ /\ ~ run.active
       /\ RunPostAnalysis
    \/ /\ ~ run.active
       /\ \E limit \in TriggerLimits : RunTriggerAnalysis(limit)

SpecAnalyze == Init /\ [][NextAnalyze]_vars

\* ---- a backlog of pending evaluations: two signals an hour apart ----

\* after the first signal: returns from the entry price of +40 %, -50 %, 0
BacklogFollowRaws ==
    { ScreenRaw(1400, 20000, 5, 5), ScreenRaw( 500, 20000, 5, 5),
      ScreenRaw(1000, 20000, 5, 5) }

BacklogRaws == IF signal_events = <<>> THEN SetupRaws ELSE BacklogFollowRaws

MaxBacklogSnaps == 4
MaxBacklogTicks == 1

\* the screener runs before the follow-up snapshots arrive
NextBacklog ==
    \/ /\ ~ run.active
       /\ snap_seq < (IF signal_events = <<>> THEN ATH_MIN_SNAPSHOTS_IN_WINDOW
                                               ELSE MaxBacklogSnaps)
       /\ \E p \in ScreenPairs, raw \in BacklogRaws : Ingest(p, raw)
    \/ /\ snap_seq <= ATH_MIN_SNAPSHOTS_IN_WINDOW
       /\ RunStart
    \/ \E p \in ScreenPairs : RunPair(p)
    \/ /\ signal_events # <<>>
       /\ ~ run.active
       /\ Tick(HOUR_MS, MaxBacklogTicks)
    \/ /\ ~ run.active
       /\ RunPostAnalysis
    \/ /\ ~ run.active
       /\ \E limit \in TriggerLimits : RunTriggerAnalysis(limit)

SpecBacklog == Init /\ [][NextBacklog]_vars

\* ---- the backlog over more than the window of a trigger evaluation ----

\* the hours the clock may advance: the window and one hour more
MaxAgedTicks == 25

\* after the first signal: returns from the entry price of +40 % and 0
AgedFollowRaws == { ScreenRaw(1400, 20000, 5, 5), ScreenRaw(1000, 20000, 5, 5) }

AgedRaws == IF signal_events = <<>> THEN SetupRaws ELSE AgedFollowRaws

\* the backlog seen by the trigger analyzer alone, with the clock passing
\* the end of the 24 h window
NextAged ==
    \/ /\ ~ run.active
       /\ snap_seq < (IF signal_events = <<>> THEN ATH_MIN_SNAPSHOTS_IN_WINDOW
                                               ELSE MaxBacklogSnaps)
       /\ \E p \in ScreenPairs, raw \in AgedRaws : Ingest(p, raw)
    \/ /\ snap_seq <= ATH_MIN_SNAPSHOTS_IN_WINDOW
       /\ RunStart
    \/ \E p \in ScreenPairs : RunPair(p)
    \/ /\ signal_events # <<>>
       /\ ~ run.active
       /\ Tick(HOUR_MS, MaxBacklogTicks)
    \/ /\ signal_events # <<>>
       /\ ~ run.active
       /\ Tick(TRIGGER_EVAL_MAX_AGE_SEC * 1000, MaxAgedTicks)
    \/ /\ ~ run.active
       /\ \E limit \in TriggerLimits : RunTriggerAnalysis(limit)

SpecAged == Init /\ [][NextAged]_vars

\* ---- the screener over a pair that is pruned and ingested again ----

MaxReingestSnaps == 4

\* between two runs of the screener the pair may be pruned, by a prune with
\* max_age_hours = 1 that deletes the pairs of ScreenPairs, and collected
\* again; the clock may advance during a run
NextReingest ==
    \/ /\ ~ run.active
       /\ snap_seq < MaxReingestSnaps
       /\ \E p \in ScreenPairs, raw \in SetupRaws : Ingest(p, raw)
    \/ RunStart
    \/ \E p \in ScreenPairs : RunPair(p)
    \/ Tick(HOUR_MS, MaxScreenTicks)
    \/ /\ ~ run.active
       /\ PruneByPairAge(1)

SpecReingest == Init /\ [][NextReingest]_vars

\* ---- pruning by pair age and the self-check ----

\* pairs created an hour ago, 30 hours ago, 60 hours ago, and without a
\* creation time (NULL, 0)
PruneCreated ==
    {YoungCreated, StartClock - 30 * HOUR_MS, StartClock - 60 * HOUR_MS, NULL, 0}

PruneRaws ==
    {[ScreenRaw(1000, 20000, 5, 5) EXCEPT !.pair_created_at_ms = c] : c \in PruneCreated}

\* max_age_hours of prune_by_pair_age: below, at and above SELF_CHECK_AGE_HOURS
PruneHours == {12, DEFAULT_PRUNE_MAX_AGE_HOURS, 48}

MaxPruneSnaps == 3

NextPrune ==
    \/ /\ snap_seq < MaxPruneSnaps
       /\ \E p \in Pairs, raw \in PruneRaws : Ingest(p, raw)
    \/ \E h \in PruneHours : PruneByPairAge(h)
    \/ \E h \in PruneHours : PruneByPairAgeDryRun(h)

SpecPrune == Init /\ [][NextPrune]_vars

-----------------------------------------------------------------------------
(* The collector over a list of raw pairs *)

\* an element of the list handed to collect_from_raw_pairs. shape tells what
\* the object is: "pair" a pair object of the provider; "snake_case" one
\* that carries its address under the key pair_address only; "no_address"
\* a dict without an address; "not_a_dict" anything else; "bad_number" a
\* pair object whose pairCreatedAt is "inf", on which int(float(..)) raises
RawItem(shape, p, body) == [shape |-> shape, pairAddress |-> p, body |-> body]

\* addr in collect_from_raw_pairs: pairAddress or pair_address, stripped
FilterAddr(raw) ==
    IF raw.shape \in {"not_a_dict", "no_address"} THEN "" ELSE raw.pairAddress

\* pair_address of the snapshot from_api_pair builds: pairAddress only
NormalizedAddr(raw) ==
    IF raw.shape \in {"snake_case", "no_address"} THEN "" ELSE raw.pairAddress

\* from_api_pair raises (OverflowError in _parse_int)
NormalizeRaises(raw) == raw.shape = "bad_number"

\* mutant: the known set not consulted
FilteredIgnoringKnown(raw_pairs, known) ==
    SelectSeq([i \in 1..Len(raw_pairs) |-> i], LAMBDA i : FilterAddr(raw_pairs[i]) # "")

\* the positions of raw_pairs that collect_from_raw_pairs keeps
Filtered(raw_pairs, known) ==
    SelectSeq([i \in 1..Len(raw_pairs) |-> i],
              LAMBDA i : FilterAddr(raw_pairs[i]) # "" /\ FilterAddr(raw_pairs[i]) \notin known)

\* the tables and the two counters of _persist_pairs
PersistState(toks, prs, snaps, seq, dwl, processed, errors) ==
    [tokens |-> toks, pairs |-> prs, snapshots |-> snaps, snap_seq |-> seq,
     dump_watchlist |-> dwl, processed |-> processed, errors |-> errors]

Failed(st) == [st EXCEPT !.errors = @ + 1]

\* the body of the loop of _persist_pairs on one raw pair. failing names the
\* store call that raises on this item ("none" when none does); every call
\* before it has committed its write.
PersistOne(st, raw, failing, ts) ==
    IF NormalizeRaises(raw) \/ NormalizedAddr(raw) = "" \/ failing = "upsert_token"
    THEN Failed(st)
    ELSE
      LET p    == NormalizedAddr(raw)
          row  == Row(p, raw.body, ts)
          st1  == [st EXCEPT !.tokens = @ \cup {BaseOf(p), QuoteOf(p)}]
          st2  == [st1 EXCEPT !.pairs = Put(@, p, row)]
          st3  == [st2 EXCEPT !.snapshots = Append(@, SnapRow(row, st.snap_seq + 1)),
                              !.snap_seq = @ + 1]
      IN  CASE failing = "upsert_pair" -> Failed(st1)
            [] failing = "insert_snapshot" -> Failed(st2)
            [] failing = "update_dump_watchlist_for_snapshot" -> Failed(st3)
            [] OTHER ->
                 [st3 EXCEPT !.dump_watchlist = DumpUpdate(@, st3.snapshots, st3.pairs, p, ts),
                             !.processed = @ + 1]

\* no store call raises during the call
NoFault == [at |-> 0, call |-> "none"]

FailingAt(fault, i) == IF fault.at = i THEN fault.call ELSE "none"

\* mutant: the loop left at the first item that fails
RECURSIVE PersistUntilError(_, _, _, _, _, _)
PersistUntilError(st, raw_pairs, idxs, k, fault, ts) ==
    IF k > Len(idxs) \/ st.errors > 0 THEN st
    ELSE PersistUntilError(PersistOne(st, raw_pairs[idxs[k]], FailingAt(fault, idxs[k]), ts),
                           raw_pairs, idxs, k + 1, fault, ts)

\* Collector._persist_pairs on the items of raw_pairs at the positions idxs,
\* from the k-th on: one snapshot_ts for the whole list
RECURSIVE PersistPairs(_, _, _, _, _, _)
PersistPairs(st, raw_pairs, idxs, k, fault, ts) ==
    IF k > Len(idxs) THEN st
    ELSE PersistPairs(PersistOne(st, raw_pairs[idxs[k]], FailingAt(fault, idxs[k]), ts),
                      raw_pairs, idxs, k + 1, fault, ts)

\* Collector.collect_from_raw_pairs(raw_pairs, known_pair_addresses); the
\* return value is kept with the list it was computed for
CollectFromRawPairs(raw_pairs, known, fault) ==
    LET idxs == Filtered(raw_pairs, known)
        st0  == PersistState(tokens, pairs, snapshots, snap_seq, dump_watchlist, 0, 0)
        st   == PersistPairs(st0, raw_pairs, idxs, 1, fault, now)
    IN  /\ tokens' = st.tokens
        /\ pairs' = st.pairs
        /\ snapshots' = st.snapshots
        /\ snap_seq' = st.snap_seq
        /\ dump_watchlist' = st.dump_watchlist
        /\ last_op' = [op |-> "collect_from_raw_pairs", pair |-> "-",
                       ret |-> [raw_pairs |-> raw_pairs, fault |-> fault,
                                counts |-> << st.processed, st.errors,
                                              Len(raw_pairs) - Len(idxs) >>]]
        /\ now' = now + INGEST_MS
        /\ UNCHANGED screenVars

\* Database.get_known_pair_addresses()
GetKnownPairAddresses == DOMAIN pairs

\* the list: a pair at its peak and at half of it, another pair, and the
\* objects that do not normalize to a pair
RawItems ==
    { RawItem("pair", "pA", DumpRaw(2000, 10000, 500, 4, 5)),
      RawItem("pair", "pA", DumpRaw(1000, 10000, 500, 4, 5)),
      RawItem("pair", "pB", DumpRaw(2000, 10000, 500, 4, 5)),
      RawItem("snake_case", "pA", DumpRaw(2000, 10000, 500, 4, 5)),
      RawItem("bad_number", "pB", DumpRaw(2000, 10000, 500, 4, 5)),
      RawItem("no_address", "", DumpRaw(2000, 10000, 500, 4, 5)),
      RawItem("not_a_dict", "", DumpRaw(NULL, NULL, NULL, NULL, NULL)) }

StoreCalls == {"upsert_token", "upsert_pair", "insert_snapshot",
               "update_dump_watchlist_for_snapshot"}

MaxInput == 2
MaxCollects == 2

RawLists == UNION {[1..n -> RawItems] : n \in 0..MaxInput}

Faults(raw_pairs) ==
    {NoFault} \cup {[at |-> i, call |-> c] : i \in 1..Len(raw_pairs), c \in StoreCalls}

\* a first call on any list, then calls on the same list, each with the
\* known set read from the store just before it
NextCollect ==
    \/ /\ last_op.op = "init"
       /\ \E raw_pairs \in RawLists : \E fault \in Faults(raw_pairs) :
             CollectFromRawPairs(raw_pairs, GetKnownPairAddresses, fault)
       /\ UNCHANGED netVars
    \/ /\ last_op.op = "collect_from_raw_pairs"
       /\ now < StartClock + MaxCollects * INGEST_MS
       /\ \E fault \in Faults(last_op.ret.raw_pairs) :
             CollectFromRawPairs(last_op.ret.raw_pairs, GetKnownPairAddresses, fault)
       /\ UNCHANGED netVars

SpecCollect == Init /\ [][NextCollect]_vars

-----------------------------------------------------------------------------
(* The client under a sequence of requests *)

\* --max-retries and --rate-limit-rps as the commands pass them
RetryChoices == {CHECK_MAX_RETRIES, DEFAULT_MAX_RETRIES}
RateChoices == {1, CHECK_RATE_LIMIT_RPS}

\* the two endpoints collect-new calls
Paths == {"/token-profiles/latest/v1", "/tokens/v1/solana"}

MaxRequests == 4

NextClient ==
    \/ \E m \in RetryChoices, r \in RateChoices : Construct(m, r)
    \/ \E path \in Paths, gap \in {0, 400} : Request(path, gap)
    \/ /\ client.requests < MaxRequests
       /\ \E resp \in Responses, dur \in {0, 100}, jitter \in {0, JITTER_MAX_MS - 1} :
             Attempt(resp, dur, jitter)

SpecClient == Init /\ [][NextClient]_vars

-----------------------------------------------------------------------------
(* The collect-new loop: cli.py *)

\* config.COLLECT_NEW_INTERVAL_SEC
COLLECT_NEW_INTERVAL_SEC == 60

\* what get_pairs_by_token_addresses_batched returns in a cycle: nothing, a
\* pair, a pair and an object that does not normalize
CycleLists ==
    { <<>>,
      << RawItem("pair", "pA", DumpRaw(2000, 10000, 500, 4, 5)) >>,
      << RawItem("pair", "pB", DumpRaw(2000, 10000, 500, 4, 5)),
         RawItem("bad_number", "pA", DumpRaw(2000, 10000, 500, 4, 5)) >> }

MaxCycles == 2

InCycle(cn) == cn.phase \in {"profiles", "pairs", "ingest", "prune"}

\* cmd_collect_new up to the loop: the client is built and the handler set
CmdCollectNew(no_prune, max_retries, rate_limit_rps) ==
    /\ collect_new.phase = "not_started"
    /\ collect_new' = [NoCollectNew EXCEPT !.phase = "loop", !.no_prune = no_prune]
    /\ client' = [NoClient EXCEPT !.made = TRUE, !.max_retries = max_retries,
                                  !.rate_limit_rps = rate_limit_rps]
    /\ UNCHANGED <<now, storeVars, screenVars, histVars, app_status, db_lock>>

\* while not shutdown: the loop is left, or a cycle begins
LoopTest ==
    /\ collect_new.phase = "loop"
    /\ collect_new.shutdown \/ collect_new.cycle_num < MaxCycles
    /\ collect_new' =
          IF collect_new.shutdown
          THEN [collect_new EXCEPT !.phase = "stopped"]
          ELSE [collect_new EXCEPT !.phase = "profiles", !.cycle_num = @ + 1,
                                   !.fetch = "-", !.raw_pairs = <<>>,
                                   !.ingested = FALSE, !.pruned = FALSE,
                                   !.failed = FALSE]
    /\ UNCHANGED <<now, storeVars, screenVars, histVars, client, app_status, db_lock>>

\* client.get_latest_token_profiles(): _request raises once its attempts are
\* used up and the exception reaches the except clause of the cycle; an
\* empty list skips the fetch of the pairs and the ingestion
GetLatestTokenProfiles(outcome) ==
    /\ collect_new.phase = "profiles"
    /\ collect_new' =
          CASE outcome = "raised" ->
                 [collect_new EXCEPT !.phase = "end", !.fetch = "profiles_raised",
                                     !.failed = TRUE]
            [] outcome = "empty" ->
                 [collect_new EXCEPT !.phase = "prune", !.fetch = "profiles_empty"]
            [] OTHER ->
                 [collect_new EXCEPT !.phase = "pairs", !.fetch = "profiles_ok"]
    /\ UNCHANGED <<now, storeVars, screenVars, histVars, client, app_status, db_lock>>

\* client.get_pairs_by_token_addresses_batched(token_addresses), the tokens
\* making one chunk: a chunk whose _request raises is skipped
GetPairsByTokenAddressesBatched(raised, data) ==
    /\ collect_new.phase = "pairs"
    /\ collect_new' =
          IF raised
          THEN [collect_new EXCEPT !.phase = "ingest", !.fetch = "chunk_raised",
                                   !.raw_pairs = <<>>]
          ELSE [collect_new EXCEPT !.phase = "ingest", !.fetch = "chunk_ok",
                                   !.raw_pairs = data]
    /\ UNCHANGED <<now, storeVars, screenVars, histVars, client, app_status, db_lock>>

\* known = db.get_known_pair_addresses(); collector.collect_from_raw_pairs
CycleIngest(fault) ==
    /\ collect_new.phase = "ingest"
    /\ CollectFromRawPairs(collect_new.raw_pairs, GetKnownPairAddresses, fault)
    /\ collect_new' = [collect_new EXCEPT !.phase = "prune", !.ingested = TRUE]
    /\ UNCHANGED <<client, app_status, db_lock>>

\* the auto-prune of the cycle: prune_by_pair_age(max_h) and then
\* prune_dump_watchlist(DUMP_WATCHLIST_TTL_HOURS), unless --no-prune
AutoPrune(max_h) ==
    /\ collect_new.phase = "prune"
    /\ IF collect_new.no_prune
       THEN /\ collect_new' = [collect_new EXCEPT !.phase = "end"]
            /\ UNCHANGED <<storeVars, histVars>>
       ELSE LET old    == OldPairs(pairs, PruneCutoff(now, max_h))
                snaps2 == SelectSeq(snapshots, LAMBDA r : r.pair_address \notin old)
                pairs2 == Without(pairs, old)
                toks2  == tokens \cap ReferencedTokens(pairs2)
                d1     == Without(dump_watchlist,
                                  Expired(dump_watchlist,
                                          now - DUMP_WATCHLIST_TTL_HOURS * HOUR_MS))
                d2     == Without(d1, Orphaned(d1, pairs2))
            IN  /\ snapshots' = snaps2
                /\ pairs' = pairs2
                /\ tokens' = toks2
                /\ dump_watchlist' = d2
                /\ last_op' = [op |-> "auto_prune", pair |-> "-",
                               ret |-> << Len(snapshots) - Len(snaps2),
                                          Cardinality(old),
                                          Cardinality(tokens \ toks2) >>]
                /\ collect_new' = [collect_new EXCEPT !.phase = "end", !.pruned = TRUE]
                /\ UNCHANGED snap_seq
    /\ UNCHANGED <<now, screenVars, client, app_status, db_lock>>

\* after the try statement: if shutdown: break, else time.sleep(interval_sec)
EndOfCycle ==
    /\ collect_new.phase = "end"
    /\ collect_new' = [collect_new EXCEPT
                          !.phase = IF collect_new.shutdown THEN "stopped" ELSE "sleep"]
    /\ UNCHANGED <<now, storeVars, screenVars, histVars, client, app_status, db_lock>>

\* time.sleep(interval_sec) returns
Wake ==
    /\ collect_new.phase = "sleep"
    /\ collect_new' = [collect_new EXCEPT !.phase = "loop"]
    /\ now' = now + COLLECT_NEW_INTERVAL_SEC * 1000
    /\ UNCHANGED <<storeVars, screenVars, histVars, client, app_status, db_lock>>

\* _on_sigint: the first signal sets shutdown, the second calls sys.exit(1),
\* whose SystemExit no except clause of the function catches
OnSigint ==
    /\ collect_new.phase \notin {"not_started", "stopped", "killed"}
    /\ collect_new' =
          IF collect_new.shutdown
          THEN [collect_new EXCEPT !.phase = "killed", !.sigints = @ + 1]
          ELSE [collect_new EXCEPT !.shutdown = TRUE, !.sigints = @ + 1,
                                   !.cancelled_in = IF InCycle(collect_new)
                                                    THEN collect_new.cycle_num ELSE 0]
    /\ UNCHANGED <<now, storeVars, screenVars, histVars, client, app_status, db_lock>>

NextCollectNew ==
    \/ \E no_prune \in BOOLEAN : CmdCollectNew(no_prune, DEFAULT_MAX_RETRIES, DEFAULT_RATE_LIMIT_RPS)
    \/ LoopTest
    \/ \E outcome \in {"raised", "empty", "tokens"} : GetLatestTokenProfiles(outcome)
    \/ \E raised \in BOOLEAN, data \in CycleLists : GetPairsByTokenAddressesBatched(raised, data)
    \/ \E fault \in Faults(collect_new.raw_pairs) : CycleIngest(fault)
    \/ AutoPrune(DEFAULT_PRUNE_MAX_AGE_HOURS)
    \/ EndOfCycle
    \/ Wake
    \/ OnSigint

SpecCollectNew == Init /\ [][NextCollectNew]_vars

-----------------------------------------------------------------------------
(* The lock file under concurrent callers *)

NextLock ==
    \/ \E p \in Pids : TryAcquireTest(p)
    \/ \E p \in Pids, oserror \in BOOLEAN : TryAcquireWrite(p, oserror)
    \/ \E p \in Pids : ReleaseDbLock(p)
    \/ \E p \in Pids : Die(p)

SpecLock == Init /\ [][NextLock]_vars

-----------------------------------------------------------------------------
(* Properties of the dump/reversal state machine *)

HasEntry(p) == p \in DOMAIN dump_watchlist
Entry(p) == dump_watchlist[p]

RankOf(state) == CASE state = "DUMPING" -> 0
                   [] state = "BOTTOMING" -> 1
                   [] state = "SIGNAL" -> 2

\* the snapshot of p inserted last (greatest id), and the one before it
IdsOf(snaps, p) == {snaps[i].id : i \in {j \in 1..Len(snaps) : snaps[j].pair_address = p}}
RowById(snaps, id) == snaps[CHOOSE i \in 1..Len(snaps) : snaps[i].id = id]
MaxOf(S) == CHOOSE x \in S : \A y \in S : y <= x
NewestRow(snaps, p) == RowById(snaps, MaxOf(IdsOf(snaps, p)))
SecondNewestRow(snaps, p) ==
    RowById(snaps, MaxOf(IdsOf(snaps, p) \ {MaxOf(IdsOf(snaps, p))}))

\* the step is an invocation of update_dump_watchlist_for_snapshot(p)
InvokedFor(p) == last_op'.op \in {"ingest", "reinvoke"} /\ last_op'.pair = p

\* C2: the state of an entry only moves forward along DUMPING -> BOTTOMING
\* -> SIGNAL: no step takes an entry to an earlier state, and an entry in
\* SIGNAL stays in SIGNAL.
C2_StateOnlyForward ==
    [][\A p \in Pairs :
         (p \in DOMAIN dump_watchlist /\ p \in DOMAIN dump_watchlist')
            => RankOf(dump_watchlist'[p].state) >= RankOf(dump_watchlist[p].state)]_vars

\* an entry in SIGNAL that a later ingestion has updated
C2_Witness ==
    \E p \in Pairs :
        /\ HasEntry(p)
        /\ Entry(p).state = "SIGNAL"
        /\ last_op = [op |-> "ingest", pair |-> p, ret |-> 0]
        /\ Entry(p).last_ts > Entry(p).signal_ts

\* C3: an entry is in SIGNAL exactly when signal_ts and signal_price are set;
\* the step that takes an entry into SIGNAL stamps them with the timestamp
\* and price of the latest snapshot, and no later step changes them.
C3_StampInv ==
    \A p \in DOMAIN dump_watchlist :
        IF dump_watchlist[p].state = "SIGNAL"
        THEN dump_watchlist[p].signal_ts # NULL /\ dump_watchlist[p].signal_price # NULL
        ELSE dump_watchlist[p].signal_ts = NULL /\ dump_watchlist[p].signal_price = NULL

C3_StampStep ==
    \A p \in Pairs :
        (p \in DOMAIN dump_watchlist' /\ dump_watchlist'[p].state = "SIGNAL") =>
            IF p \in DOMAIN dump_watchlist /\ dump_watchlist[p].state = "SIGNAL"
            THEN /\ dump_watchlist'[p].signal_ts = dump_watchlist[p].signal_ts
                 /\ dump_watchlist'[p].signal_price = dump_watchlist[p].signal_price
            ELSE /\ dump_watchlist'[p].signal_ts = NewestRow(snapshots', p).snapshot_ts
                 /\ dump_watchlist'[p].signal_price = NewestRow(snapshots', p).price_usd

C3_SignalStamp == []C3_StampInv /\ [][C3_StampStep]_vars

\* an entry in SIGNAL whose last price is no longer the price it signalled at
C3_Witness ==
    \E p \in Pairs :
        /\ HasEntry(p)
        /\ Entry(p).state = "SIGNAL"
        /\ Entry(p).last_price # Entry(p).signal_price

\* C4: every entry has 0 <= drop_pct <= 100, last_price > 0,
\* peak_price >= last_price and peak_price >= low_price.
C4_EntryRanges ==
    \A p \in DOMAIN dump_watchlist :
        LET e == dump_watchlist[p]
        IN  /\ e.drop_pct.den > 0
            /\ 0 <= e.drop_pct.num
            /\ e.drop_pct.num <= e.drop_pct.den
            /\ e.last_price > 0
            /\ e.peak_price >= e.last_price
            /\ e.peak_price >= e.low_price

\* an entry that survived the prune of its pair and was updated by the
\* re-ingestion: its peak is above every snapshot the pair has
C4_Witness ==
    \E p \in Pairs :
        /\ HasEntry(p)
        /\ last_op = [op |-> "ingest", pair |-> p, ret |-> 0]
        /\ Entry(p).last_ts = NewestRow(snapshots, p).snapshot_ts
        /\ \A i \in 1..Len(snapshots) :
               snapshots[i].pair_address = p => snapshots[i].price_usd < Entry(p).peak_price

\* C5: the stored drop_pct of every entry equals
\* (peak_price - last_price) / peak_price * 100 of its own stored prices.
C5_DropFromStoredPeak ==
    \A p \in DOMAIN dump_watchlist :
        LET e == dump_watchlist[p]
        IN  PctEq(e.drop_pct, Pct(e.peak_price - e.last_price, e.peak_price))

\* the highest positive price among the snapshots of p, and the timestamp
\* of the most recent snapshot at that price
PeakPrice(snaps, p) ==
    MaxOf({snaps[i].price_usd : i \in {j \in 1..Len(snaps) : snaps[j].pair_address = p}})
PeakTs(snaps, p) ==
    MaxOf({snaps[i].snapshot_ts :
             i \in {j \in 1..Len(snaps) : /\ snaps[j].pair_address = p
                                         /\ snaps[j].price_usd = PeakPrice(snaps, p)}})

\* C6: an entry appears only by an invocation for its pair in which the drop
\* of the latest snapshot L from the peak P is at least 50 %, the pair's
\* liquidity_usd >= 10 000, L.volume_m5 >= 500 and L.sells_m5 >= 5 (missing
\* values as 0); it is DUMPING with low = L and peak = P.
C6_Admission ==
    [][\A p \in Pairs :
         (p \notin DOMAIN dump_watchlist /\ p \in DOMAIN dump_watchlist') =>
            LET L == NewestRow(snapshots', p)
                P == PeakPrice(snapshots', p)
                e == dump_watchlist'[p]
            IN  /\ InvokedFor(p)
                /\ L.price_usd > 0
                /\ (P - L.price_usd) * 100 >= 50 * P
                /\ p \in DOMAIN pairs' /\ pairs'[p].liquidity_usd >= 10000
                /\ L.volume_m5 >= 500
                /\ L.txns_m5_sells >= 5
                /\ e.state = "DUMPING"
                /\ e.low_price = L.price_usd /\ e.low_ts = L.snapshot_ts
                /\ e.last_price = L.price_usd /\ e.last_ts = L.snapshot_ts
                /\ e.peak_price = P /\ e.peak_ts = PeakTs(snapshots', p)
                /\ e.signal_ts = NULL /\ e.signal_price = NULL]_vars

\* an entry that the last ingestion created
C6_Witness ==
    \E p \in Pairs :
        /\ HasEntry(p)
        /\ last_op = [op |-> "ingest", pair |-> p, ret |-> 0]
        /\ Entry(p).state = "DUMPING"
        /\ Entry(p).added_at_ms = Entry(p).last_ts
        /\ Entry(p).low_ts = Entry(p).last_ts

\* C7: an invocation on an entry in DUMPING or BOTTOMING ends with the
\* entry in SIGNAL iff the latest snapshot L has a positive price,
\* L.price >= low * 1.01 for low = min(stored low, L.price),
\* L.buys_m5 > L.sells_m5 and
\* L.volume_m5 >= max(volume_m5 of the snapshot before L, 300), missing
\* values and a missing previous snapshot counting as 0.
C7_SignalClaim(p) ==
    /\ IdsOf(snapshots', p) # {}
    /\ LET L == NewestRow(snapshots', p)
           low == IF L.price_usd < dump_watchlist[p].low_price
                  THEN L.price_usd ELSE dump_watchlist[p].low_price
           prev_vol == IF Cardinality(IdsOf(snapshots', p)) >= 2
                       THEN Nz(SecondNewestRow(snapshots', p).volume_m5) ELSE 0
       IN  /\ L.price_usd # NULL /\ L.price_usd > 0
           /\ 100 * L.price_usd >= 101 * low
           /\ Nz(L.txns_m5_buys) > Nz(L.txns_m5_sells)
           /\ Nz(L.volume_m5) >= 300
           /\ Nz(L.volume_m5) >= prev_vol

C7_SignalIff ==
    [][\A p \in Pairs :
         ( /\ InvokedFor(p)
           /\ p \in DOMAIN dump_watchlist
           /\ dump_watchlist[p].state \in {"DUMPING", "BOTTOMING"} )
         => ( (p \in DOMAIN dump_watchlist' /\ dump_watchlist'[p].state = "SIGNAL")
                <=> C7_SignalClaim(p) )]_vars

\* an entry that was BOTTOMING or DUMPING and that the last ingestion took
\* into SIGNAL at exactly low * 1.01
C7_Witness ==
    \E p \in Pairs :
        /\ HasEntry(p)
        /\ last_op = [op |-> "ingest", pair |-> p, ret |-> 0]
        /\ Entry(p).state = "SIGNAL"
        /\ Entry(p).signal_ts = NewestRow(snapshots, p).snapshot_ts
        /\ 100 * Entry(p).signal_price = 101 * Entry(p).low_price

\* C8: an entry leaves the table only by prune_dump_watchlist, and only when
\* its updated_at_ms is more than the TTL of 3 h before the time of the prune
\* or its pair is no longer in pairs; an invocation of the update removes
\* nothing, whatever drop_pct has become.
C8_RemovalOnlyByPrune ==
    [][\A p \in Pairs :
         (p \in DOMAIN dump_watchlist /\ p \notin DOMAIN dump_watchlist') =>
            /\ last_op'.op = "prune_dump_watchlist"
            /\ \/ now - dump_watchlist[p].updated_at_ms > 3 * 3600 * 1000
               \/ p \notin DOMAIN pairs]_vars

\* a prune that has removed an entry of a pair still in pairs, by its age
C8_Witness ==
    /\ last_op.op = "prune_dump_watchlist"
    /\ last_op.ret > 0
    /\ \E p \in Pairs : p \in DOMAIN pairs /\ ~ HasEntry(p)

\* C9: an invocation for a pair that directly follows an invocation for the
\* same pair, no snapshot inserted in between, creates no entry and leaves
\* every column of the entry but updated_at_ms as it was.
C9_SecondInvocation ==
    [][\A p \in Pairs :
         ( /\ last_op'.op = "reinvoke" /\ last_op'.pair = p
           /\ last_op.op \in {"ingest", "reinvoke"} /\ last_op.pair = p )
         => /\ (p \in DOMAIN dump_watchlist') = (p \in DOMAIN dump_watchlist)
            /\ p \in DOMAIN dump_watchlist =>
                 dump_watchlist'[p] =
                   [dump_watchlist[p] EXCEPT !.updated_at_ms = dump_watchlist'[p].updated_at_ms]]_vars

\* an entry that a second invocation has just gone over: only its
\* updated_at_ms is later than its last snapshot
C9_Witness ==
    \E p \in Pairs :
        /\ HasEntry(p)
        /\ last_op = [op |-> "reinvoke", pair |-> p, ret |-> 0]
        /\ Entry(p).updated_at_ms > Entry(p).last_ts
        /\ Entry(p).state = "BOTTOMING"

-----------------------------------------------------------------------------
(* Properties of the screener *)

\* every entry the run has put on one of its four classified lists
ListedIn(r) ==
    {r.signals[i] : i \in 1..Len(r.signals)}
        \cup {r.watchlist_l3[i] : i \in 1..Len(r.watchlist_l3)}
        \cup {r.watchlist_l2[i] : i \in 1..Len(r.watchlist_l2)}
        \cup {r.watchlist_l1[i] : i \in 1..Len(r.watchlist_l1)}

\* the decisions the table of classes allows for a drop of n / d * 100 %,
\* downgrade and gating included
AllowedBy(n, d) ==
    IF n * 100 < 25 * d THEN {"REJECT"}
    ELSE IF n * 100 < 35 * d THEN {"WATCHLIST_L1", "REJECT"}
    ELSE IF n * 100 < 45 * d THEN {"WATCHLIST_L2", "WATCHLIST_L1", "REJECT"}
    ELSE IF n * 100 < 50 * d THEN {"WATCHLIST_L3", "WATCHLIST_L2", "WATCHLIST_L1", "REJECT"}
    ELSE IF n * 100 <= 60 * d THEN {"SIGNAL", "REJECT"}
    ELSE {"REJECT"}

\* C1: every decision recorded for a classified pair is one the class of its
\* drop_from_ath allows (drop < 25 REJECT, [25,35) L1, [35,45) L2, [45,50) L3,
\* [50,60] SIGNAL candidate, drop > 60 REJECT), and no entry with a drop
\* above 60 % is on a watchlist or on the signal list.
C1_ClassByDrop ==
    /\ \A i \in 1..Len(strategy_decisions) :
           strategy_decisions[i].drop_from_ath.den > 0 =>
               strategy_decisions[i].decision
                   \in AllowedBy(strategy_decisions[i].drop_from_ath.num,
                                 strategy_decisions[i].drop_from_ath.den)
    /\ \A e \in ListedIn(run) :
           e.drop_from_ath.num * 100 <= 60 * e.drop_from_ath.den

\* the step is the visit of pair p by the run in progress
VisitOf(p) == run.active /\ p \in run.todo /\ p \notin run'.todo

\* C10 (as stated): a visit emits SIGNAL only if the drop is in [50, 60],
\* txns_h24 >= 10, buys_h24 >= 5, liquidity_usd >= 5 000 and last_signal_at
\* is absent or older than 3 600 s at the run's now; a pair whose
\* last_signal_at is not older than that gets no SignalEvent and no new
\* cooldown stamp.
C10_GateOlderThan ==
    [][\A p \in Pairs : VisitOf(p) =>
         LET cooled == /\ p \in DOMAIN signal_cooldowns
                       /\ run.now_ms - signal_cooldowns[p] <= 3600 * 1000
         IN  /\ cooled => /\ signal_events' = signal_events
                          /\ signal_cooldowns' = signal_cooldowns
             /\ Len(run'.signals) > Len(run.signals) =>
                  LET e == run'.signals[Len(run'.signals)]
                  IN  /\ e.pair_address = p
                      /\ e.drop_from_ath.num * 100 >= 50 * e.drop_from_ath.den
                      /\ e.drop_from_ath.num * 100 <= 60 * e.drop_from_ath.den
                      /\ Nz(pairs[p].txns_h24_buys) + Nz(pairs[p].txns_h24_sells) >= 10
                      /\ Nz(pairs[p].txns_h24_buys) >= 5
                      /\ Nz(pairs[p].liquidity_usd) >= 5000
                      /\ ~ cooled]_vars

\* C10 (amended): the same, the cooldown being a last_signal_at less than
\* 3 600 s before the run's now: a stamp exactly 3 600 s old blocks nothing.
C10_GateAtLeast ==
    [][\A p \in Pairs : VisitOf(p) =>
         LET cooled == /\ p \in DOMAIN signal_cooldowns
                       /\ run.now_ms - signal_cooldowns[p] < 3600 * 1000
         IN  /\ cooled => /\ signal_events' = signal_events
                          /\ signal_cooldowns' = signal_cooldowns
             /\ Len(run'.signals) > Len(run.signals) =>
                  LET e == run'.signals[Len(run'.signals)]
                  IN  /\ e.pair_address = p
                      /\ e.drop_from_ath.num * 100 >= 50 * e.drop_from_ath.den
                      /\ e.drop_from_ath.num * 100 <= 60 * e.drop_from_ath.den
                      /\ Nz(pairs[p].txns_h24_buys) + Nz(pairs[p].txns_h24_sells) >= 10
                      /\ Nz(pairs[p].txns_h24_buys) >= 5
                      /\ Nz(pairs[p].liquidity_usd) >= 5000
                      /\ ~ cooled
                      /\ signal_events' # signal_events
                      /\ signal_cooldowns'[p] = now]_vars

\* a second SignalEvent of a pair, emitted by a run that started exactly
\* 3 600 s after the pair's cooldown stamp
C10_Witness ==
    /\ Len(signal_events) = 2
    /\ signal_events[2].pair_address = signal_events[1].pair_address
    /\ signal_events[2].signal_ts - signal_events[1].signal_ts = 3600 * 1000
    /\ last_op.op = "run_pair"
    /\ Len(run.signals) = 1

\* the rows of signal_evaluations of one signal and one horizon
EvaluationsOf(id, h) ==
    {i \in 1..Len(signal_evaluations) :
        signal_evaluations[i].signal_id = id /\ signal_evaluations[i].horizon_sec = h}

\* C11: when no run is in progress, every SignalEvent has one
\* SignalTriggerEvaluation and one SignalEvaluation for each of the horizons
\* 1 800, 3 600 and 7 200 s, all PENDING as long as no analyzer has run, its
\* pair has a SignalCooldown row, and there are as many decisions SIGNAL as
\* SignalEvents.
C11_SignalEnrolled ==
    ~ run.active =>
        /\ \A i \in 1..Len(signal_events) :
               LET ev == signal_events[i]
               IN  /\ ev.id \in DOMAIN signal_trigger_evaluations
                   /\ signal_trigger_evaluations[ev.id].status = "PENDING"
                   /\ \A h \in {1800, 3600, 7200} :
                          /\ Cardinality(EvaluationsOf(ev.id, h)) = 1
                          /\ \A k \in EvaluationsOf(ev.id, h) :
                                 signal_evaluations[k].status = "PENDING"
                   /\ ev.pair_address \in DOMAIN signal_cooldowns
        /\ Cardinality({i \in 1..Len(strategy_decisions) :
                           strategy_decisions[i].decision = "SIGNAL"})
               = Len(signal_events)

\* two runs are over and each has emitted a SignalEvent
C11_Witness ==
    /\ ~ run.active
    /\ Len(signal_events) = 2
    /\ Len(signal_evaluations) = 6

\* every entry of the five lists of the run
Returned(r) ==
    ListedIn(r) \cup {r.watchlist_bootstrap[i] : i \in 1..Len(r.watchlist_bootstrap)}

C14_Bootstrap ==
    [][\A p \in Pairs :
         ( /\ VisitOf(p)
           /\ Nz(pairs[p].pair_created_at_ms) > 0
              => run.now_ms - pairs[p].pair_created_at_ms <= 24 * 3600 * 1000
           /\ Cardinality(IdsOf(snapshots, p)) < 2
           /\ \/ /\ IdsOf(snapshots, p) # {}
                 /\ NewestRow(snapshots, p).price_usd > 0
              \/ /\ \A id \in IdsOf(snapshots, p) : RowById(snapshots, id).price_usd <= 0
                 /\ pairs[p].price_usd > 0 )
         => IF /\ Nz(pairs[p].liquidity_usd) >= 10000
               /\ Nz(pairs[p].volume_h24) >= 500
               /\ Nz(pairs[p].txns_h24_buys) + Nz(pairs[p].txns_h24_sells) >= 5
            THEN /\ Len(strategy_decisions') = Len(strategy_decisions) + 1
                 /\ strategy_decisions'[Len(strategy_decisions')].decision
                        = "WATCHLIST_BOOTSTRAP"
                 /\ strategy_decisions'[Len(strategy_decisions')].reason
                        = "insufficient_price_history"
                 /\ strategy_decisions'[Len(strategy_decisions')].pair_address = p
                 /\ Len(run'.watchlist_bootstrap) = Len(run.watchlist_bootstrap) + 1
                 /\ run'.watchlist_bootstrap[Len(run'.watchlist_bootstrap)].pair_address = p
                 /\ ListedIn(run') = ListedIn(run)
            ELSE /\ strategy_decisions' = strategy_decisions
                 /\ Returned(run') = Returned(run)]_vars

\* a pair with one snapshot that the last visit put on the bootstrap list
C14_Witness ==
    \E p \in Pairs :
        /\ last_op = [op |-> "run_pair", pair |-> p, ret |-> 0]
        /\ Cardinality(IdsOf(snapshots, p)) = 1
        /\ Len(run.watchlist_bootstrap) = 1
        /\ strategy_latest[p].decision = "WATCHLIST_BOOTSTRAP"

\* the minima of watchlist level n
MeetsLevel(n, liq, txns) ==
    CASE n = 3 -> txns >= 10 /\ liq >= 20000
      [] n = 2 -> txns >= 7 /\ liq >= 15000
      [] n = 1 -> txns >= 5 /\ liq >= 10000
      [] OTHER -> TRUE

\* the level a drop of the watchlist zone starts on
StartLevel(drop) ==
    IF ~ PctLess(drop, 45) THEN 3 ELSE IF ~ PctLess(drop, 35) THEN 2 ELSE 1

\* the first level, counting down from n, whose minima are met; 0 is REJECT
Landing(n, liq, txns) ==
    LET ok == {k \in 0..n : MeetsLevel(k, liq, txns)}
    IN  CHOOSE k \in ok : \A m \in ok : m <= k

LevelName(n) ==
    CASE n = 3 -> "WATCHLIST_L3"
      [] n = 2 -> "WATCHLIST_L2"
      [] n = 1 -> "WATCHLIST_L1"
      [] OTHER -> "REJECT"

\* C13: a decision WATCHLIST_L3 is recorded only with txns_h24 >= 10 and
\* liquidity >= 20 000, WATCHLIST_L2 only with >= 7 and >= 15 000,
\* WATCHLIST_L1 only with >= 5 and >= 10 000; and for a drop of the watchlist
\* zone (25 <= drop < 50) the decision is the first level, counting down from
\* the level of the drop, whose minima the pair meets, REJECT if none.
C13_LevelMinima ==
    [][\A p \in Pairs :
         (VisitOf(p) /\ Len(strategy_decisions') = Len(strategy_decisions) + 1)
         => LET d == strategy_decisions'[Len(strategy_decisions')]
                liq == Nz(pairs[p].liquidity_usd)
                txns == Nz(pairs[p].txns_h24_buys) + Nz(pairs[p].txns_h24_sells)
            IN  /\ \A n \in 1..3 : d.decision = LevelName(n) => MeetsLevel(n, liq, txns)
                /\ ( /\ d.drop_from_ath # NoDrop
                     /\ ~ PctLess(d.drop_from_ath, 25)
                     /\ PctLess(d.drop_from_ath, 50) )
                   => d.decision = LevelName(Landing(StartLevel(d.drop_from_ath), liq, txns))]_vars

\* a drop of 45 % on a pool below the minima of levels 3 and 2 was recorded
\* on level 1
C13_Witness ==
    \E p \in Pairs :
        /\ last_op = [op |-> "run_pair", pair |-> p, ret |-> 0]
        /\ strategy_latest[p].decision = "WATCHLIST_L1"
        /\ ~ PctLess(strategy_latest[p].drop_from_ath, 45)
        /\ PctLess(strategy_latest[p].drop_from_ath, 50)
        /\ pairs[p].liquidity_usd < 15000

-----------------------------------------------------------------------------
(* Properties of the outcome analyzers *)

MinOf(S) == CHOOSE x \in S : \A y \in S : x <= y

\* the snapshots of the pair of signal id with a positive price and a
\* timestamp in [signal_ts, signal_ts + span_ms], by their position
WindowOf(id, span_ms) ==
    {i \in 1..Len(snapshots) :
        /\ snapshots[i].pair_address = signal_events[id].pair_address
        /\ snapshots[i].price_usd # NULL
        /\ snapshots[i].price_usd > 0
        /\ snapshots[i].snapshot_ts >= signal_events[id].signal_ts
        /\ snapshots[i].snapshot_ts <= signal_events[id].signal_ts + span_ms}

\* the times of the snapshots of the 24 h window with a return from the
\* entry price of at least +40 %, of at most -50 %
Tp1Times(id) ==
    {snapshots[i].snapshot_ts : i \in {j \in WindowOf(id, 86400 * 1000) :
        (snapshots[j].price_usd - signal_events[id].entry_price) * 100
            >= 40 * signal_events[id].entry_price}}

SlTimes(id) ==
    {snapshots[i].snapshot_ts : i \in {j \in WindowOf(id, 86400 * 1000) :
        (snapshots[j].price_usd - signal_events[id].entry_price) * 100
            <= (-50) * signal_events[id].entry_price}}

\* what C15 says of the row of signal id after the run
SettledAsClaimed(id) ==
    LET t == signal_trigger_evaluations'[id]
        tp1 == IF Tp1Times(id) = {} THEN NULL ELSE MinOf(Tp1Times(id))
        sl == IF SlTimes(id) = {} THEN NULL ELSE MinOf(SlTimes(id))
    IN  IF Cardinality(WindowOf(id, 86400 * 1000)) >= 2
        THEN /\ t.status = "DONE"
             /\ t.tp1_hit_ts = tp1
             /\ t.sl_hit_ts = sl
             /\ t.outcome \in {"TP1_FIRST", "SL_FIRST", "NEITHER"}
             /\ t.outcome = "TP1_FIRST" <=> (tp1 # NULL /\ (sl = NULL \/ tp1 < sl))
             /\ t.outcome = "SL_FIRST" <=> (sl # NULL /\ (tp1 = NULL \/ sl < tp1))
        ELSE t.status = "NO_DATA"

PendingTriggers == {id \in DOMAIN signal_trigger_evaluations :
                       signal_trigger_evaluations[id].status = "PENDING"}

\* the step is a run of the trigger analyzer that took some evaluation
TriggerRun ==
    /\ DOMAIN signal_trigger_evaluations' = DOMAIN signal_trigger_evaluations
    /\ signal_trigger_evaluations' # signal_trigger_evaluations

\* C15 as stated: a run of the trigger analyzer settles every PENDING trigger
\* evaluation: DONE with tp1_hit_ts / sl_hit_ts the times of the first
\* snapshot of the 24 h window with a return >= +40 % / <= -50 % and the
\* outcome by their order when the window holds at least 2 priced snapshots,
\* NO_DATA otherwise.
C15_EveryPendingSettled ==
    [][TriggerRun => \A id \in PendingTriggers : SettledAsClaimed(id)]_vars

\* C15, amended: a run of the trigger analyzer takes the PENDING evaluations
\* in the order of signal_id, the first one always, and settles each one it
\* takes as claimed; the others stay as they were.
C15_TakenSettled ==
    [][TriggerRun =>
         LET taken == {id \in PendingTriggers :
                          signal_trigger_evaluations'[id] # signal_trigger_evaluations[id]}
         IN  /\ MinOf(PendingTriggers) \in taken
             /\ \A id \in taken : \A j \in PendingTriggers : j < id => j \in taken
             /\ \A id \in taken : SettledAsClaimed(id)
             /\ \A id \in DOMAIN signal_trigger_evaluations \ taken :
                    signal_trigger_evaluations'[id] = signal_trigger_evaluations[id]]_vars

\* the first evaluation was settled TP1_FIRST, the stop hit later; the second
\* one was not taken and is still PENDING
C15_Witness ==
    /\ 1 \in DOMAIN signal_trigger_evaluations
    /\ 2 \in DOMAIN signal_trigger_evaluations
    /\ signal_trigger_evaluations[1].outcome = "TP1_FIRST"
    /\ signal_trigger_evaluations[1].sl_hit_ts # NULL
    /\ signal_trigger_evaluations[2].status = "PENDING"

\* the larger of two percentages does not compare below the smaller
PctLE(a, b) == a.num * b.den <= b.num * a.den

\* the snapshots of the 24 h window of signal id at or after time ts
AfterIn(id, ts) ==
    {i \in WindowOf(id, 86400 * 1000) : snapshots[i].snapshot_ts >= ts}

\* C16: a trigger evaluation that a run settles DONE with outcome TP1_FIRST
\* has bu_hit_after_tp1 = 1 iff some snapshot of the window at or after
\* tp1_hit_ts has a price <= the entry price (else 0), post_tp1_max_price the
\* greatest price of those snapshots and post_tp1_max_pct its return, which
\* is >= 40; with outcome SL_FIRST or NEITHER the three fields are NULL.
C16_PostTp1Fields ==
    [][\A id \in PendingTriggers :
         signal_trigger_evaluations'[id].status = "DONE"
         => LET t == signal_trigger_evaluations'[id]
                entry == signal_events[id].entry_price
                after == AfterIn(id, t.tp1_hit_ts)
                top == MaxOf({snapshots[i].price_usd : i \in after})
            IN  IF t.outcome = "TP1_FIRST"
                THEN /\ t.bu_hit_after_tp1 \in {0, 1}
                     /\ t.bu_hit_after_tp1 = 1
                            <=> \E i \in after : snapshots[i].price_usd <= entry
                     /\ t.post_tp1_max_price = top
                     /\ t.post_tp1_max_pct # NoDrop
                     /\ PctEq(t.post_tp1_max_pct, Pct(top - entry, entry))
                     /\ ~ PctLess(t.post_tp1_max_pct, 40)
                ELSE /\ t.outcome \in {"SL_FIRST", "NEITHER"}
                     /\ t.bu_hit_after_tp1 = NULL
                     /\ t.post_tp1_max_pct = NoDrop
                     /\ t.post_tp1_max_price = NULL]_vars

\* an evaluation settled TP1_FIRST with the price back at or under the entry
\* price after the hit, and the maximum after the hit the TP1 price itself
C16_Witness ==
    \E id \in DOMAIN signal_trigger_evaluations :
        /\ signal_trigger_evaluations[id].status = "DONE"
        /\ signal_trigger_evaluations[id].outcome = "TP1_FIRST"
        /\ signal_trigger_evaluations[id].bu_hit_after_tp1 = 1
        /\ signal_trigger_evaluations[id].post_tp1_max_price
               = signal_trigger_evaluations[id].tp1_price

\* the window of evaluation i: the priced snapshots of its pair with a
\* timestamp in [signal_ts, signal_ts + horizon]
HorizonWindow(i) ==
    WindowOf(signal_evaluations[i].signal_id, signal_evaluations[i].horizon_sec * 1000)

\* the position of the latest snapshot of a non-empty set of positions
LatestOf(S) ==
    CHOOSE i \in S : \A j \in S : snapshots[j].snapshot_ts <= snapshots[i].snapshot_ts

PendingEvals == {i \in 1..Len(signal_evaluations) : signal_evaluations[i].status = "PENDING"}

DueAt(i, t) ==
    t >= signal_events[signal_evaluations[i].signal_id].signal_ts
             + signal_evaluations[i].horizon_sec * 1000

\* the step is a run of the horizon analyzer that took some evaluation
PostRun ==
    /\ Len(signal_evaluations') = Len(signal_evaluations)
    /\ signal_evaluations' # signal_evaluations

\* C17: no step changes a PENDING SignalEvaluation whose horizon has not
\* passed; a run of run_post_analysis(now) settles every PENDING one whose
\* horizon has passed: NO_DATA when no priced snapshot lies in [signal_ts,
\* signal_ts + horizon], else DONE with price_end the price of the latest
\* snapshot of the window and max_price / min_price its extremes, all three
\* equal when the window holds one snapshot.
C17_HorizonEvaluation ==
    [][\A i \in PendingEvals :
         /\ ~ DueAt(i, now) => signal_evaluations'[i] = signal_evaluations[i]
         /\ (PostRun /\ DueAt(i, now))
            => LET e == signal_evaluations'[i]
                   W == HorizonWindow(i)
                   P == {snapshots[k].price_usd : k \in W}
               IN  IF W = {}
                   THEN e.status = "NO_DATA"
                   ELSE /\ e.status = "DONE"
                        /\ e.price_end = snapshots[LatestOf(W)].price_usd
                        /\ e.max_price = MaxOf(P)
                        /\ e.min_price = MinOf(P)
                        /\ Cardinality(W) = 1
                           => e.price_end = e.max_price /\ e.max_price = e.min_price]_vars

\* the 30 min and the 60 min evaluation are DONE from one snapshot, the
\* 120 min evaluation is not due and still PENDING
C17_Witness ==
    /\ Len(signal_evaluations) = 3
    /\ signal_evaluations[1].status = "DONE"
    /\ signal_evaluations[1].price_end = signal_evaluations[1].max_price
    /\ signal_evaluations[1].price_end = signal_evaluations[1].min_price
    /\ signal_evaluations[2].status = "DONE"
    /\ signal_evaluations[3].status = "PENDING"
    /\ ~ DueAt(3, now)

\* C18: every SignalEvaluation with status DONE has min_price <= price_end
\* <= max_price and min_return_pct <= return_end_pct <= max_return_pct.
C18_DoneOrdered ==
    \A i \in 1..Len(signal_evaluations) :
        signal_evaluations[i].status = "DONE"
        => /\ signal_evaluations[i].min_price <= signal_evaluations[i].price_end
           /\ signal_evaluations[i].price_end <= signal_evaluations[i].max_price
           /\ signal_evaluations[i].min_return_pct.den > 0
           /\ signal_evaluations[i].return_end_pct.den > 0
           /\ signal_evaluations[i].max_return_pct.den > 0
           /\ PctLE(signal_evaluations[i].min_return_pct, signal_evaluations[i].return_end_pct)
           /\ PctLE(signal_evaluations[i].return_end_pct, signal_evaluations[i].max_return_pct)

\* a DONE evaluation of a window that rose: the last price is the maximum,
\* above the minimum
C18_Witness ==
    \E i \in 1..Len(signal_evaluations) :
        /\ signal_evaluations[i].status = "DONE"
        /\ signal_evaluations[i].min_price < signal_evaluations[i].price_end
        /\ signal_evaluations[i].price_end = signal_evaluations[i].max_price

\* no step changes a settled row of either table, and a status changes only
\* from PENDING to DONE or NO_DATA
SettledFrozen ==
    /\ \A id \in DOMAIN signal_trigger_evaluations :
           LET t == signal_trigger_evaluations[id]
               u == signal_trigger_evaluations'[id]
           IN  /\ id \in DOMAIN signal_trigger_evaluations'
               /\ t.status \in {"DONE", "NO_DATA"} => u = t
               /\ u.status # t.status
                  => t.status = "PENDING" /\ u.status \in {"DONE", "NO_DATA"}
    /\ \A i \in 1..Len(signal_evaluations) :
           LET e == signal_evaluations[i]
               f == signal_evaluations'[i]
           IN  /\ i <= Len(signal_evaluations')
               /\ e.status \in {"DONE", "NO_DATA"} => f = e
               /\ f.status # e.status
                  => e.status = "PENDING" /\ f.status \in {"DONE", "NO_DATA"}

\* a second run of the horizon analyzer at the same now changes nothing
PostTwiceAsOnce ==
    PostRun => PostAnalysisResult(signal_evaluations', signal_events',
                                  snapshots', now') = signal_evaluations'

\* the step is a run of the trigger analyzer with this limit
TriggerRunWith(limit) ==
    /\ TriggerRun
    /\ signal_trigger_evaluations' =
           TriggerAnalysisResult(signal_trigger_evaluations, signal_events,
                                 snapshots, now, limit)

\* a second run of the trigger analyzer with the same limit changes nothing
TriggerTwiceAsOnce(limit) ==
    TriggerAnalysisResult(signal_trigger_evaluations', signal_events',
                          snapshots', now', limit) = signal_trigger_evaluations'

\* C19 as stated: a DONE or NO_DATA row of signal_evaluations or
\* signal_trigger_evaluations is never changed again, a status moves only
\* from PENDING to DONE or NO_DATA, and a second run of an analyzer right
\* after a run leaves the rows as the first run left them.
C19_FrozenAndTwiceAsOnce ==
    [][/\ SettledFrozen
       /\ PostTwiceAsOnce
       /\ TriggerRun => \E limit \in TriggerLimits :
                            TriggerRunWith(limit) /\ TriggerTwiceAsOnce(limit)]_vars

\* C19, amended: settled rows are never changed again, a status moves only
\* from PENDING to DONE or NO_DATA, a second run of the horizon analyzer at
\* the same now changes nothing, and a second run of the trigger analyzer
\* changes nothing when the first run found no more PENDING rows than its
\* limit.
C19_FrozenAndTwiceWithinLimit ==
    [][/\ SettledFrozen
       /\ PostTwiceAsOnce
       /\ \A limit \in TriggerLimits :
              (TriggerRunWith(limit) /\ Cardinality(PendingTriggers) <= limit)
              => TriggerTwiceAsOnce(limit)]_vars

\* the first trigger evaluation was settled NO_DATA before its window held
\* two snapshots; it holds two now and a later run has settled the second one
C19_Witness ==
    /\ 1 \in DOMAIN signal_trigger_evaluations
    /\ 2 \in DOMAIN signal_trigger_evaluations
    /\ signal_trigger_evaluations[1].status = "NO_DATA"
    /\ Cardinality(WindowOf(1, 86400 * 1000)) >= 2
    /\ signal_trigger_evaluations[2].status = "DONE"

-----------------------------------------------------------------------------
(* Properties of pruning by pair age *)

\* the step is a call of prune_by_pair_age(h, dry_run = false)
PruneStep == last_op'.op = "prune_by_pair_age" /\ now' = now

\* the step leaves the pairs that prune_by_pair_age(h) leaves
PrunedWith(h) ==
    /\ PruneStep
    /\ DOMAIN pairs' = {q \in DOMAIN pairs :
                           ~ ( /\ pairs[q].pair_created_at_ms # NULL
                               /\ pairs[q].pair_created_at_ms # 0
                               /\ pairs[q].pair_created_at_ms < now - h * HOUR_MS )}

SelfCheckAfter == SelfCheckInvariants(pairs', snapshots', tokens', now')

OlderThan(h) ==
    {q \in DOMAIN pairs : /\ pairs[q].pair_created_at_ms # NULL
                          /\ pairs[q].pair_created_at_ms # 0
                          /\ pairs[q].pair_created_at_ms < now - h * HOUR_MS}

\* the tokens of toks that some pair of prs has as base or quote
ReferencedIn(toks, prs) ==
    {t \in toks : \E q \in DOMAIN prs : prs[q].base_address = t \/ prs[q].quote_address = t}

SnapshotsOf(snaps, S) == SelectSeq(snaps, LAMBDA r : r.pair_address \in S)

\* what prune_by_pair_age(h, dry_run = false) deletes, as three counts
DeletedCounts(h) ==
    << Len(SnapshotsOf(snapshots, OlderThan(h))),
       Cardinality(OlderThan(h)),
       Cardinality(tokens \ ReferencedIn(tokens, Without(pairs, OlderThan(h)))) >>

\* the step deletes exactly what C21 lists for the horizon h
DeletesExactly(h) ==
    /\ snapshots' = SnapshotsOf(snapshots, DOMAIN pairs \ OlderThan(h))
    /\ pairs' = Without(pairs, OlderThan(h))
    /\ tokens' = ReferencedIn(tokens, pairs')
    /\ last_op'.ret = DeletedCounts(h)
    /\ UNCHANGED <<dump_watchlist, screenVars>>

KeepsYoung(h) ==
    /\ \A q \in DOMAIN pairs \ OlderThan(h) :
          /\ q \in DOMAIN pairs'
          /\ pairs'[q] = pairs[q]
          /\ SnapshotsOf(snapshots', {q}) = SnapshotsOf(snapshots, {q})
    /\ \A t \in ReferencedIn(tokens, pairs') : t \in tokens'

DryRunStep == last_op'.op = "prune_by_pair_age_dry_run"

\* C23: prune_by_pair_age(h, dry_run = true) changes no row and returns the
\* counts (snapshots, pairs, tokens) that prune_by_pair_age(h, dry_run =
\* false) deletes on the same store.
C23_DryRunReportsDeletion ==
    [][DryRunStep =>
         /\ UNCHANGED <<storeVars, screenVars>>
         /\ \E h \in PruneHours : last_op'.ret = DeletedCounts(h)]_vars

-----------------------------------------------------------------------------
(* Properties of the collector *)

\* the step is a call of collect_from_raw_pairs
CollectStep == last_op'.op = "collect_from_raw_pairs" /\ now' # now

\* the step is a call on the list of the call before it, the known set read
\* from the store in between
SecondCollect ==
    /\ last_op.op = "collect_from_raw_pairs"
    /\ CollectStep
    /\ last_op'.ret.raw_pairs = last_op.ret.raw_pairs

SkipsAll ==
    /\ last_op'.ret.counts[1] = 0
    /\ last_op'.ret.counts[3] = Len(last_op'.ret.raw_pairs)
    /\ UNCHANGED <<tokens, pairs, snapshots, snap_seq, dump_watchlist>>

SkippedAt(L, K) ==
    {i \in 1..Len(L) : \/ L[i].shape \in {"not_a_dict", "no_address"}
                       \/ L[i].pairAddress \in K}

ErrorAt(L, K, f) ==
    {i \in (1..Len(L)) \ SkippedAt(L, K) :
        L[i].shape \in {"bad_number", "snake_case"} \/ f.at = i}

ProcessedAt(L, K, f) == (1..Len(L)) \ (SkippedAt(L, K) \cup ErrorAt(L, K, f))

\* C25: collect_from_raw_pairs returns (processed, errors, skipped) summing
\* to len(input); an item whose normalization or store sub-step fails counts
\* once in errors, and the items after it are still attempted: each item
\* that neither fails nor is skipped has its snapshot written.
C25_CountsPartition ==
    [][CollectStep =>
        LET L == last_op'.ret.raw_pairs
            f == last_op'.ret.fault
            c == last_op'.ret.counts
        IN  /\ c[1] + c[2] + c[3] = Len(L)
            /\ c = << Cardinality(ProcessedAt(L, DOMAIN pairs, f)),
                      Cardinality(ErrorAt(L, DOMAIN pairs, f)),
                      Cardinality(SkippedAt(L, DOMAIN pairs)) >>
            /\ \A i \in ProcessedAt(L, DOMAIN pairs, f) :
                  \E j \in (Len(snapshots) + 1)..Len(snapshots') :
                      /\ snapshots'[j].pair_address = L[i].pairAddress
                      /\ snapshots'[j].snapshot_ts = now
                      /\ snapshots'[j].price_usd = L[i].body.price_usd]_vars

\* a call whose first item failed in a store call and whose second item was
\* persisted
C25_Witness ==
    /\ last_op.op = "collect_from_raw_pairs"
    /\ last_op.ret.fault.at = 1
    /\ last_op.ret.counts = <<1, 1, 0>>
    /\ Len(snapshots) >= 1
    /\ snapshots[Len(snapshots)].snapshot_ts = now - INGEST_MS

-----------------------------------------------------------------------------
(* Properties of the client *)

\* the step is one attempt of _request: a request has gone out
AttemptStep == client'.requests = client.requests + 1

\* C26: _request retries an attempt only when it failed with HTTP 429, a 5xx
\* status, a connect failure or a timeout; on another 4xx status the
\* operation fails after that single attempt.
C26_RetryOnlyTransient ==
    [][AttemptStep =>
         /\ client'.path # "-" =>
               client'.resp \in {"429", "500", "connect_error", "timeout"}
         /\ client'.resp = "404" =>
               client'.path = "-" /\ client'.result = "raised"]_vars

\* C27: two consecutive requests sent through one client, retries and
\* requests of different operations included, are at least
\* 1 / rate_limit_rps apart.
C27_MinSpacing ==
    client.prev_request_ts # NULL =>
        (client.last_request_ts - client.prev_request_ts) * client.rate_limit_rps >= 1000

\* a retry has gone out exactly 1 / rate_limit_rps after the attempt before
\* it, _throttle having slept past the end of the backoff delay
C27_Witness ==
    /\ client.requests >= 2
    /\ client.attempt >= 1
    /\ client.rate_limit_rps = 1
    /\ client.last_request_ts - client.prev_request_ts = 1000

\* C36: one call of _request makes at most max_retries attempts; an attempt
\* answered 200 ends the call with the body and no further attempt; a failed
\* attempt i (from 0) is followed by a sleep of backoff_base * 2^i + jitter,
\* 0 <= jitter < 0.2 s, exactly when another attempt follows, and then the
\* number of attempts left has gone down by one; the call raises when attempt
\* max_retries - 1 fails, or at once on an exception _request does not catch
C36_BoundedRetries ==
    [][AttemptStep =>
         LET i == client.attempt
         IN  /\ i < client.max_retries
             /\ client'.resp = "200" =>
                   client'.path = "-" /\ client'.result = "returned" /\ client'.slept = 0
             /\ client'.resp # "200" =>
                   IF client'.path # "-"
                   THEN /\ client'.attempt = i + 1
                        /\ i + 1 < client.max_retries
                        /\ client'.slept >= 500 * 2 ^ i
                        /\ client'.slept < 500 * 2 ^ i + 200
                        /\ now' >= client'.last_request_ts + client'.slept
                   ELSE /\ client'.result = "raised"
                        /\ client'.slept = 0
                        /\ i = client.max_retries - 1 \/ client'.resp = "read_error"]_vars

\* a call with max_retries = 4 has raised after four failed attempts, the
\* last of them not followed by a sleep
C36_Witness ==
    /\ client.max_retries = 4
    /\ client.requests = 4
    /\ client.attempt = 3
    /\ client.path = "-"
    /\ client.result = "raised"
    /\ client.resp = "timeout"
    /\ client.slept = 0

-----------------------------------------------------------------------------
(* Properties of the collect-new loop *)

\* the cycle is over: control is past its try statement
CycleOver == collect_new.phase \in {"end", "sleep"} /\ collect_new.cycle_num >= 1

\* C28: when a fetch of a collect-new cycle has used up its retries, only the
\* affected item is skipped: the cycle is not aborted and performs its
\* remaining steps, auto-prune included.
C28_FetchFailureKeepsCycle ==
    CycleOver /\ collect_new.fetch \in {"profiles_raised", "chunk_raised"} =>
        /\ ~ collect_new.failed
        /\ collect_new.no_prune \/ collect_new.pruned

\* C29: after the first cancel signal the cycle in progress runs to its end,
\* ingestion and auto-prune included, no further cycle is started and the
\* loop terminates; a second cancel signal terminates the process at once.
C29_CancelFinishesCycle ==
    [][/\ collect_new.shutdown => collect_new'.cycle_num = collect_new.cycle_num
       /\ collect_new.shutdown /\ collect_new.phase \in {"loop", "end"} =>
             collect_new'.phase \in {"stopped", "killed"}
       /\ collect_new'.sigints = 2 /\ collect_new.sigints = 1 =>
             collect_new'.phase = "killed"
       /\ ( /\ collect_new'.phase = "stopped"
            /\ collect_new.cancelled_in = collect_new.cycle_num
            /\ collect_new.cycle_num >= 1 ) =>
             /\ collect_new.no_prune \/ collect_new.pruned
             /\ collect_new.fetch = "chunk_ok" => collect_new.ingested]_vars

\* C30: every cycle stamps last_cycle_started_at_ms on the row of app_status
\* when it starts and, at its end, last_cycle_finished_at_ms or last_error;
\* after a completed cycle get_app_status() returns a row reflecting it.
C30_StatusReflectsCycle ==
    /\ collect_new.cycle_num >= 1 =>
          app_status.present /\ app_status.last_cycle_started_at_ms # NULL
    /\ CycleOver =>
          IF collect_new.failed
          THEN app_status.last_error # NoOutcome
          ELSE app_status.last_cycle_finished_at_ms # NULL


-----------------------------------------------------------------------------
(* Properties of the lock file *)

\* the processes whose last try_acquire_db_lock returned True and that have
\* neither released nor died since
Holders == {p \in db_lock.alive : db_lock.ret[p] = "True"}

\* C31: among the live processes that called try_acquire_db_lock for one db
\* path, at most one has been answered True and has not released since
C31_AtMostOneHolder == Cardinality(Holders) <= 1

\* C31, second part: a call that finds the pid of a live process in the lock
\* file does not reach the write, and a call answered False by the test has
\* found such a pid and leaves the file as it is
C31_RefusedWhileAlive ==
    [][\A p \in Pids :
         LET live == db_lock.file # NoLockFile /\ db_lock.file \in db_lock.alive
         IN  /\ (db_lock.at[p] = "idle" /\ db_lock'.at[p] = "write") => ~ live
             /\ (/\ db_lock.at[p] = "idle" /\ db_lock'.at[p] = "idle"
                 /\ db_lock.ret[p] = "-" /\ db_lock'.ret[p] = "False")
                => live /\ db_lock'.file = db_lock.file]_vars

\* C31, third part: a call that finds the pid of a dead process in the lock
\* file and whose write succeeds replaces the file and returns True
C31_StaleOverwritten ==
    [][\A p \in Pids :
         (db_lock.at[p] = "write" /\ db_lock'.at[p] = "idle" /\ p \in db_lock'.alive
          /\ db_lock'.ret[p] = "True")
         => db_lock'.file = p]_vars

-----------------------------------------------------------------------------
(* Properties of the decision tables *)

\* the positions in strategy_decisions of the decisions on pair p
DecisionsOf(p) == {i \in DOMAIN strategy_decisions : strategy_decisions[i].pair_address = p}

\* the decision on pair p inserted last
LastDecision(p) ==
    strategy_decisions[CHOOSE i \in DecisionsOf(p) : \A j \in DecisionsOf(p) : j <= i]

\* C32: the pairs with a row in strategy_latest are the pairs with at least
\* one row in strategy_decisions, and the row of a pair carries the decision,
\* prices, drop, time and reasons of the decision on it that was inserted last
C32_LatestIsLastDecision ==
    /\ DOMAIN strategy_latest = {strategy_decisions[i].pair_address : i \in DOMAIN strategy_decisions}
    /\ \A p \in DOMAIN strategy_latest : strategy_latest[p] = LastDecision(p)

\* a pair decided twice, differently, whose latest row is the second decision
C32_Witness ==
    \E p \in DOMAIN strategy_latest :
        /\ Cardinality(DecisionsOf(p)) >= 2
        /\ \E i \in DecisionsOf(p) : strategy_decisions[i].decision # LastDecision(p).decision
        /\ strategy_latest[p] = LastDecision(p)

-----------------------------------------------------------------------------
(* Properties of the step DUMPING -> BOTTOMING *)

\* the pair has two snapshots, the last two are both priced at or above
\* low * 1.003 and the last one has buys_m5 >= 0.8 * sells_m5, missing values
\* counting as 0
C33_BottomingClaim(p, low) ==
    /\ Cardinality(IdsOf(snapshots', p)) >= 2
    /\ LET L == NewestRow(snapshots', p)
           P == SecondNewestRow(snapshots', p)
       IN  /\ 1000 * Nz(L.price_usd) >= 1003 * low
           /\ 1000 * Nz(P.price_usd) >= 1003 * low
           /\ 10 * Nz(L.txns_m5_buys) >= 8 * Nz(L.txns_m5_sells)

\* C33: an invocation on an entry in DUMPING for which the SIGNAL conditions
\* do not hold leaves the entry in BOTTOMING iff the pair has at least two
\* snapshots, the two most recent are both priced at or above low * 1.003,
\* low being the low of the entry after the invocation, and the most recent
\* has buys_m5 >= 0.8 * sells_m5; otherwise it leaves the entry in DUMPING
C33_BottomingIff ==
    [][\A p \in Pairs :
         ( /\ InvokedFor(p)
           /\ p \in DOMAIN dump_watchlist
           /\ dump_watchlist[p].state = "DUMPING"
           /\ ~ C7_SignalClaim(p) )
         => /\ p \in DOMAIN dump_watchlist'
            /\ IF C33_BottomingClaim(p, dump_watchlist'[p].low_price)
               THEN dump_watchlist'[p].state = "BOTTOMING"
               ELSE dump_watchlist'[p].state = "DUMPING"]_vars

\* four snapshots, the entry admitted at 1000 by the second, left in DUMPING
\* by the third at exactly low * 1.003 because the second is below it, and
\* taken to BOTTOMING by the fourth at low * 1.003 with buys = 0.8 * sells
C33_Witness ==
    \E p \in Pairs :
        /\ HasEntry(p)
        /\ last_op = [op |-> "ingest", pair |-> p, ret |-> 0]
        /\ Entry(p).state = "BOTTOMING"
        /\ Cardinality(IdsOf(snapshots, p)) = 4
        /\ 1000 * NewestRow(snapshots, p).price_usd = 1003 * Entry(p).low_price
        /\ 1000 * SecondNewestRow(snapshots, p).price_usd = 1003 * Entry(p).low_price
        /\ 10 * NewestRow(snapshots, p).txns_m5_buys = 8 * NewestRow(snapshots, p).txns_m5_sells
        /\ Entry(p).added_at_ms = RowById(snapshots, MaxOf(IdsOf(snapshots, p)) - 2).snapshot_ts

-----------------------------------------------------------------------------
(* Properties of the search of a valid ATH *)

\* the priced snapshots of p since the creation of the pair, by position
AthIds(p) ==
    {i \in DOMAIN snapshots :
        /\ snapshots[i].pair_address = p
        /\ snapshots[i].price_usd # NULL /\ snapshots[i].price_usd > 0
        /\ snapshots[i].snapshot_ts >= Nz(pairs[p].pair_created_at_ms)}

\* snapshot j comes before snapshot i in (price desc, ts desc)
Ahead(j, i) ==
    \/ snapshots[j].price_usd > snapshots[i].price_usd
    \/ /\ snapshots[j].price_usd = snapshots[i].price_usd
       /\ snapshots[j].snapshot_ts > snapshots[i].snapshot_ts

\* the place of snapshot i among the candidates of p, from 1
AthRank(p, i) == Cardinality({j \in AthIds(p) : Ahead(j, i)}) + 1

\* the snapshots of p within 150 s of snapshot i
AroundOf(p, i) ==
    {j \in DOMAIN snapshots :
        /\ snapshots[j].pair_address = p
        /\ snapshots[j].snapshot_ts >= snapshots[i].snapshot_ts - 150000
        /\ snapshots[j].snapshot_ts <= snapshots[i].snapshot_ts + 150000}

\* the window of snapshot i holds at least one transaction (txns_sum >= 1;
\* volume_sum >= 0 holds for every window, no volume being negative)
TxnsOk(p, i) ==
    \E j \in AroundOf(p, i) :
        Nz(snapshots[j].txns_m5_buys) + Nz(snapshots[j].txns_m5_sells) >= 1

\* the 300 s window of snapshot i validates
WindowOk(p, i) == Cardinality(AroundOf(p, i)) >= 2 /\ TxnsOk(p, i)

\* the raw ATH, and the latest priced snapshot
RawAth(p) == CHOOSE i \in AthIds(p) : AthRank(p, i) = 1
LatestPriced(p) ==
    CHOOSE i \in AthIds(p) :
        \A j \in AthIds(p) : snapshots[j].snapshot_ts <= snapshots[i].snapshot_ts

\* the candidates a fallback may use: places 2 to 10, priced above the
\* current price, with a window that validates
FallbackIds(p) ==
    {i \in AthIds(p) :
        /\ AthRank(p, i) >= 2 /\ AthRank(p, i) <= 10
        /\ snapshots[i].price_usd > snapshots[LatestPriced(p)].price_usd
        /\ WindowOk(p, i)}

\* the ATH the claim names: its price and source, NULL when there is none
ClaimedAth(p) ==
    IF AthIds(p) = {} THEN <<NULL, "-">>
    ELSE IF WindowOk(p, RawAth(p))
    THEN <<snapshots[RawAth(p)].price_usd, "raw">>
    ELSE IF FallbackIds(p) = {} THEN <<NULL, "-">>
    ELSE LET k == CHOOSE i \in FallbackIds(p) :
                      \A j \in FallbackIds(p) : AthRank(p, i) <= AthRank(p, j)
         IN  <<snapshots[k].price_usd, "fallback">>

\* the step is the visit of p by the screener and records a decision
Decided(p) == VisitOf(p) /\ Len(strategy_decisions') = Len(strategy_decisions) + 1
NewDecision == strategy_decisions'[Len(strategy_decisions')]

\* C34: a decision that carries an ATH carries the raw ATH when the window of
\* the raw ATH validates, and otherwise the first candidate in (price desc,
\* ts desc) among places 2 to 10 whose price is above the current price and
\* whose window validates, with source fallback; and a decision on a pair
\* that has such an ATH, the raw ATH not being the current snapshot, carries it
C34_AthUsed ==
    [][\A p \in Pairs :
         Decided(p) =>
           /\ NewDecision.ath_price # NULL
                => <<NewDecision.ath_price, NewDecision.ath_source>> = ClaimedAth(p)
           /\ (ClaimedAth(p)[1] # NULL /\ RawAth(p) # LatestPriced(p))
                => NewDecision.ath_price # NULL]_vars

\* the eleventh candidate has a window that validates and is above the
\* current price, the second to the tenth have not, the raw ATH has not, and
\* the decision carries no ATH
C34_WitnessOutside ==
    /\ last_op.op = "run_pair"
    /\ Len(strategy_decisions) = 1
    /\ strategy_decisions[1].ath_price = NULL
    /\ \E i \in AthIds("pA") :
          /\ AthRank("pA", i) = 11
          /\ WindowOk("pA", i)
          /\ snapshots[i].price_usd > snapshots[LatestPriced("pA")].price_usd

\* the raw ATH fails, the second candidate fails, the third validates and is
\* the ATH of the decision, with source fallback
C34_Witness ==
    /\ last_op.op = "run_pair"
    /\ Len(strategy_decisions) = 1
    /\ strategy_decisions[1].ath_source = "fallback"
    /\ \E i \in AthIds("pA") :
          /\ AthRank("pA", i) = 3
          /\ strategy_decisions[1].ath_price = snapshots[i].price_usd
    /\ \E i \in AthIds("pA") : AthRank("pA", i) = 10 /\ WindowOk("pA", i)

\* C35: when neither the raw ATH nor a fallback candidate validates (and the
\* raw ATH is not the current snapshot), the decision recorded is
\* WATCHLIST_BOOTSTRAP only if the window of the raw ATH holds fewer than 2
\* snapshots and at least one transaction; if that window holds no
\* transaction, or holds 2 snapshots, the decision is REJECT with reason
\* valid_ath_not_found
C35_BootstrapOnlyForCount ==
    [][\A p \in Pairs :
         ( /\ Decided(p)
           /\ Cardinality(IdsOf(snapshots, p)) >= 2
           /\ AthIds(p) # {}
           /\ ClaimedAth(p)[1] = NULL
           /\ RawAth(p) # LatestPriced(p) )
         => IF Cardinality(AroundOf(p, RawAth(p))) < 2 /\ TxnsOk(p, RawAth(p))
            THEN NewDecision.decision = "WATCHLIST_BOOTSTRAP"
            ELSE /\ NewDecision.decision = "REJECT"
                 /\ NewDecision.reason = "valid_ath_not_found"]_vars

-----------------------------------------------------------------------------
(* Properties of the rows the pipeline and the prunes leave *)

\* C37: one call of collect_from_raw_pairs appends at most one snapshot per
\* pair address, and no two snapshots of one pair carry the same snapshot_ts
C37_OneSnapshotPerPair ==
    /\ [][CollectStep =>
            \A p \in Pairs :
                Cardinality(IdsOf(snapshots', p) \ IdsOf(snapshots, p)) <= 1]_vars
    /\ [](\A i, j \in DOMAIN snapshots :
             (i # j /\ snapshots[i].pair_address = snapshots[j].pair_address)
                 => snapshots[i].snapshot_ts # snapshots[j].snapshot_ts)

\* C38: every snapshot carries a non-empty pair_address that has a row in
\* pairs, and the base and quote address of every pair have a row in tokens
C38_RowsRefer ==
    /\ \A i \in DOMAIN snapshots :
          snapshots[i].pair_address # "" /\ snapshots[i].pair_address \in DOMAIN pairs
    /\ \A p \in DOMAIN pairs :
          pairs[p].base_address \in tokens /\ pairs[p].quote_address \in tokens

\* a prune has deleted one pair with its snapshot and its base token, and
\* the pair that is left has two snapshots and both its tokens
C38_Witness ==
    /\ last_op.op = "prune_by_pair_age"
    /\ last_op.ret = <<1, 1, 1>>
    /\ Cardinality(DOMAIN pairs) = 1
    /\ \A p \in DOMAIN pairs :
          /\ Cardinality(IdsOf(snapshots, p)) = 2
          /\ tokens = {pairs[p].base_address, pairs[p].quote_address}


-----------------------------------------------------------------------------
(* Properties of the trigger analyzer before the end of the window *)

\* the end of the 24 h window of trigger evaluation id
WindowEnd(id) == signal_events[id].signal_ts + TRIGGER_EVAL_MAX_AGE_SEC * 1000

\* a row without its evaluated_at
Undated(t) == [t EXCEPT !.evaluated_at = NULL]

\* C39: a run of the trigger analyzer finalizes every PENDING trigger
\* evaluation it takes, whether or not the 24 h window after signal_ts has
\* passed: the row becomes DONE or NO_DATA as the snapshots stored at that
\* moment say, the clock reading shows in evaluated_at and in nothing else,
\* and a run whose limit is not below the number of PENDING rows leaves no
\* row PENDING.
C39_FinalizedBeforeWindowEnd ==
    [][TriggerRun =>
         LET taken == {id \in PendingTriggers :
                          signal_trigger_evaluations'[id] # signal_trigger_evaluations[id]}
         IN  /\ \A id \in taken :
                    /\ signal_trigger_evaluations'[id].status \in {"DONE", "NO_DATA"}
                    /\ SettledAsClaimed(id)
                    /\ signal_trigger_evaluations'[id].evaluated_at = now
                    /\ \A other \in {0, now + 2 * TRIGGER_EVAL_MAX_AGE_SEC * 1000} :
                           Undated(TriggerEvaluate(snapshots, signal_trigger_evaluations[id],
                                                   signal_events[id], other))
                               = Undated(signal_trigger_evaluations'[id])
             /\ \A limit \in TriggerLimits :
                    (TriggerRunWith(limit) /\ Cardinality(PendingTriggers) <= limit)
                    => PendingTriggers' = {}]_vars

\* the first trigger evaluation was finalized DONE before the end of its
\* window, the second one after the end of its own
C39_Witness ==
    /\ 1 \in DOMAIN signal_trigger_evaluations
    /\ 2 \in DOMAIN signal_trigger_evaluations
    /\ signal_trigger_evaluations[1].status = "DONE"
    /\ signal_trigger_evaluations[1].evaluated_at < WindowEnd(1)
    /\ signal_trigger_evaluations[2].status # "PENDING"
    /\ signal_trigger_evaluations[2].evaluated_at > WindowEnd(2)

-----------------------------------------------------------------------------
(* Properties of the signal events of a pair *)

\* C40: any two SignalEvents of one pair, whether of one run of the
\* screener or of two, have signal_ts values at least SIGNAL_COOLDOWN_SEC
\* apart (so one run, whose events all carry its now_ms, emits at most one
\* for a pair), also when the pair was pruned and ingested again between them.
C40_SignalsApart ==
    \A i, j \in 1 .. Len(signal_events) :
        (i < j /\ signal_events[i].pair_address = signal_events[j].pair_address)
        => signal_events[j].signal_ts - signal_events[i].signal_ts
               >= SIGNAL_COOLDOWN_SEC * 1000

\* two signals of the pair, the second one on snapshots that were all
\* collected after the first: those of the first signal have been pruned
C40_Witness ==
    /\ Len(signal_events) = 2
    /\ signal_events[1].pair_address = signal_events[2].pair_address
    /\ \A k \in 1 .. Len(snapshots) :
           snapshots[k].snapshot_ts > signal_events[1].signal_ts
=============================================================================
